---- MODULE Spec2Model ----
(***************************************************************************)
(* Verification model of the Slack -> Codecks bot: the name resolution      *)
(* cache (src/src/cache.js) and the message parser v5.3                     *)
(* (src/unnamed/part_001, second half).                                     *)
(*                                                                          *)
(* Strings are sequences of characters, so that the regular expressions and *)
(* the normalisation of the code are computed character by character.  A    *)
(* character is an atom written as a string: "a", " ", and for the letters   *)
(* outside ASCII a name ("a_ogonek", "l_stroke", "bullet").                  *)
(***************************************************************************)
EXTENDS Integers, Sequences, FiniteSets, TLC

(***************************************************************************)
(* Bounds                                                                   *)
(***************************************************************************)
\* number of callers that may have a refresh in flight at the same time
NumCallers == 2
\* no initialize() begins once this many have completed successfully
MaxRefreshes == 3
\* number of handleEvent calls that may be suspended at the same time
NumHandlers == 2
\* number of events Slack delivers
MaxDeliveries == 2
\* minutes that pass in one step of the clock
TickMinutes == 5

(***************************************************************************)
(* Characters and strings                                                   *)
(***************************************************************************)
\* JavaScript null / undefined, where the code expects a string
Null == << "null" >>

\* the truthiness of a string-valued expression: neither null nor ''
Truthy(s) == s # Null /\ s # <<>>

\* the characters \s matches (space, tab and the line terminators)
IsSpace(c) == c \in {" ", "\t", "\n"}

\* the characters . does not match
IsLineTerminator(c) == c = "\n"

UpperLetters ==
  << "A", "B", "C", "D", "E", "F", "G", "H", "I", "J", "K", "L", "M",
     "N", "O", "P", "Q", "R", "S", "T", "U", "V", "W", "X", "Y", "Z",
     "A_ogonek", "L_stroke", "A_diaeresis" >>

LowerLetters ==
  << "a", "b", "c", "d", "e", "f", "g", "h", "i", "j", "k", "l", "m",
     "n", "o", "p", "q", "r", "s", "t", "u", "v", "w", "x", "y", "z",
     "a_ogonek", "l_stroke", "a_diaeresis" >>

\* String.prototype.toLowerCase, character by character
LowerChar(c) ==
  IF \E i \in 1..Len(UpperLetters) : UpperLetters[i] = c
  THEN LowerLetters[CHOOSE i \in 1..Len(UpperLetters) : UpperLetters[i] = c]
  ELSE c

\* normalize('NFD') followed by the removal of U+0300..U+036F: a letter that
\* decomposes into base letter + combining mark keeps its base letter only
StripMark(c) ==
  CASE c = "a_ogonek" -> "a" [] c = "A_ogonek" -> "A"
    [] c = "a_diaeresis" -> "a" [] c = "A_diaeresis" -> "A"
    [] c = "o_acute" -> "o" [] c = "e_grave" -> "e"
    [] c = "a_tilde" -> "a" [] c = "n_tilde" -> "n"
    [] OTHER -> c

\* .replace(/l-stroke/g, 'l').replace(/L-stroke/g, 'l'): the stroke does not
\* decompose under NFD
FoldStroke(c) ==
  CASE c = "l_stroke" -> "l" [] c = "L_stroke" -> "l"
    [] OTHER -> c

\* String.prototype.toLowerCase
ToLowerCase(s) == [i \in 1..Len(s) |-> LowerChar(s[i])]

StripMarks(s) == [i \in 1..Len(s) |-> StripMark(s[i])]

FoldStrokes(s) == [i \in 1..Len(s) |-> FoldStroke(s[i])]

RECURSIVE TrimStart(_)
TrimStart(s) ==
  IF s # <<>> /\ IsSpace(Head(s)) THEN TrimStart(Tail(s)) ELSE s

RECURSIVE TrimEnd(_)
TrimEnd(s) ==
  IF s # <<>> /\ IsSpace(s[Len(s)]) THEN TrimEnd(SubSeq(s, 1, Len(s) - 1)) ELSE s

\* String.prototype.trim
Trim(s) == TrimEnd(TrimStart(s))

\* s.substring(i) with 1-based i
From(s, i) == SubSeq(s, i, Len(s))

\* t occurs in s at the 1-based position i
OccursAt(s, t, i) == i + Len(t) - 1 <= Len(s) /\ SubSeq(s, i, i + Len(t) - 1) = t

\* String.prototype.includes
Includes(s, t) == \E i \in 1..(Len(s) + 1) : OccursAt(s, t, i)

\* the positions of the character c in s
Positions(s, c) == {i \in 1..Len(s) : s[i] = c}

Min(S) == CHOOSE x \in S : \A y \in S : x <= y

Max(S) == CHOOSE x \in S : \A y \in S : x >= y

\* String.prototype.split(c) for a one-character separator
RECURSIVE Split(_, _)
Split(s, c) ==
  IF Positions(s, c) = {} THEN <<s>>
  ELSE LET i == Min(Positions(s, c))
       IN  <<SubSeq(s, 1, i - 1)>> \o Split(From(s, i + 1), c)

\* Array.prototype.join(sep)
RECURSIVE Join(_, _)
Join(parts, sep) ==
  IF parts = <<>> THEN <<>>
  ELSE IF Len(parts) = 1 THEN parts[1]
  ELSE parts[1] \o sep \o Join(Tail(parts), sep)

(***************************************************************************)
(* JavaScript Map: entries in insertion order; set() on an existing key     *)
(* replaces the value and keeps the position.                               *)
(***************************************************************************)
EmptyMap == <<>>

MapHas(m, k) == \E i \in 1..Len(m) : m[i].key = k

MapIndex(m, k) == CHOOSE i \in 1..Len(m) : m[i].key = k

MapSet(m, k, v) ==
  IF MapHas(m, k)
  THEN [i \in 1..Len(m) |-> IF m[i].key = k THEN [key |-> k, val |-> v] ELSE m[i]]
  ELSE Append(m, [key |-> k, val |-> v])

\* Map.get for the maps whose values are strings (undefined is Null)
MapGet(m, k) == IF MapHas(m, k) THEN m[MapIndex(m, k)].val ELSE Null

Entries(m) == {m[i] : i \in 1..Len(m)}

(***************************************************************************)
(* The external registry (Codecks), as CodecksClient hands it to the cache  *)
(***************************************************************************)
sMATXA == << "M", "A", " ", "T", "X", "A" >>
sArt == << "A", "r", "t" >>
sBacklog == << "B", "a", "c", "k", "l", "o", "g" >>
sTodo == << "T", "o", "d", "o" >>
sAna == << "A", "n", "a" >>
sTobiaszNowak == << "T", "o", "b", "i", "a", "s", "z", " ", "N", "o", "w", "a", "k" >>

Id(x) == << x >>

\* parseDecksWithProjects: project is null for a deck without project id
NoProject == [id |-> Null, name |-> Null]

\* the registry contents the refreshes of the model can fetch
Snapshots ==
  << [ projects |-> << [id |-> Id("p1"), name |-> sMATXA] >>,
       decks    |-> << [id |-> Id("d1"), name |-> sBacklog,
                        project |-> [id |-> Id("p1"), name |-> sMATXA]],
                       [id |-> Id("d6"), name |-> sBacklog,
                        project |-> [id |-> Id("p1"), name |-> sMATXA]] >>,
       users    |-> << [id |-> Id("u1"), name |-> sTobiaszNowak] >> ],
     [ projects |-> << [id |-> Id("p1"), name |-> sMATXA],
                       [id |-> Id("p2"), name |-> sArt] >>,
       decks    |-> << [id |-> Id("d1"), name |-> sBacklog,
                        project |-> [id |-> Id("p1"), name |-> Null]],
                       [id |-> Id("d2"), name |-> sBacklog,
                        project |-> [id |-> Id("p2"), name |-> sArt]],
                       [id |-> Id("d3"), name |-> sTodo, project |-> NoProject] >>,
       users    |-> << [id |-> Id("u2"), name |-> sAna],
                       [id |-> Id("u1"), name |-> sTobiaszNowak] >> ] >>

(***************************************************************************)
(* MappingCache: normalisation and the three loaders                        *)
(***************************************************************************)
\* normalize without the lower-casing step
normalize_keepCase(str) ==
  IF ~Truthy(str) THEN <<>> ELSE Trim(FoldStrokes(StripMarks(str)))

\* MappingCache.normalize
normalize(str) ==
  IF ~Truthy(str) THEN <<>>
  ELSE Trim(FoldStrokes(StripMarks(ToLowerCase(str))))

\* the loop of loadSpaces over the fetched projects, after the two clear()
RECURSIVE FillSpaces(_, _, _)
FillSpaces(projects, spacesAcc, spaceNamesAcc) ==
  IF projects = <<>> THEN [spaces |-> spacesAcc, spaceNames |-> spaceNamesAcc]
  ELSE LET project == Head(projects)
           name == project.name
       IN  IF Truthy(name) /\ Truthy(project.id)
           THEN FillSpaces(Tail(projects),
                           MapSet(spacesAcc, normalize(name), project.id),
                           MapSet(spaceNamesAcc, project.id, name))
           ELSE FillSpaces(Tail(projects), spacesAcc, spaceNamesAcc)

\* the space name loadDecks finds for a deck
DeckSpaceName(deck, spaceNamesNow) ==
  IF deck.project.id = Null THEN Null
  ELSE IF Truthy(deck.project.name) THEN deck.project.name
       ELSE MapGet(spaceNamesNow, deck.project.id)

\* the loop of loadDecks where a later deck of the same name replaces the
\* entry of the plain map
RECURSIVE FillDecks_lastWins(_, _, _, _)
FillDecks_lastWins(decksData, spaceNamesNow, decksAcc, deckPathsAcc) ==
  IF decksData = <<>> THEN [decks |-> decksAcc, deckPaths |-> deckPathsAcc]
  ELSE LET deck == Head(decksData)
           spaceName == DeckSpaceName(deck, spaceNamesNow)
           decksNext == MapSet(decksAcc, normalize(deck.name),
                               [id |-> deck.id, spaceId |-> deck.project.id,
                                spaceName |-> spaceName])
           pathsNext == IF Truthy(spaceName)
                        THEN MapSet(deckPathsAcc,
                                    normalize(spaceName \o << "/" >> \o deck.name), deck.id)
                        ELSE deckPathsAcc
       IN  IF Truthy(deck.name) /\ Truthy(deck.id)
           THEN FillDecks_lastWins(Tail(decksData), spaceNamesNow, decksNext, pathsNext)
           ELSE FillDecks_lastWins(Tail(decksData), spaceNamesNow, decksAcc, deckPathsAcc)

\* the loop of loadDecks over the fetched decks, after the clear()
RECURSIVE FillDecks(_, _, _, _)
FillDecks(decksData, spaceNamesNow, decksAcc, deckPathsAcc) ==
  IF decksData = <<>> THEN [decks |-> decksAcc, deckPaths |-> deckPathsAcc]
  ELSE LET deck == Head(decksData)
           name == deck.name
           normalizedName == normalize(name)
           spaceName == DeckSpaceName(deck, spaceNamesNow)
           deckInfo == [id |-> deck.id, spaceId |-> deck.project.id,
                        spaceName |-> spaceName]
           decksNext == IF MapHas(decksAcc, normalizedName) THEN decksAcc
                        ELSE MapSet(decksAcc, normalizedName, deckInfo)
           pathsNext == IF Truthy(spaceName)
                        THEN MapSet(deckPathsAcc,
                                    normalize(spaceName \o << "/" >> \o name), deck.id)
                        ELSE deckPathsAcc
       IN  IF Truthy(name) /\ Truthy(deck.id)
           THEN FillDecks(Tail(decksData), spaceNamesNow, decksNext, pathsNext)
           ELSE FillDecks(Tail(decksData), spaceNamesNow, decksAcc, deckPathsAcc)

\* a loop of loadUsers that leaves the map after the first user it has stored
FillUsers_firstOnly(usersData, usersAcc) ==
  LET stored == {i \in 1..Len(usersData) :
                   Truthy(usersData[i].name) /\ Truthy(usersData[i].id)}
  IN  IF stored = {} THEN usersAcc
      ELSE LET first == usersData[CHOOSE i \in stored : \A j \in stored : i <= j]
           IN  MapSet(usersAcc, normalize(first.name), first.id)

\* the loop of loadUsers over the fetched users, after the clear();
\* CodecksClient gives nickname = username = name, so the second set() of the
\* loop is never taken
RECURSIVE FillUsers(_, _)
FillUsers(usersData, usersAcc) ==
  IF usersData = <<>> THEN usersAcc
  ELSE LET user == Head(usersData)
           name == user.name
       IN  IF Truthy(name) /\ Truthy(user.id)
           THEN FillUsers(Tail(usersData), MapSet(usersAcc, normalize(name), user.id))
           ELSE FillUsers(Tail(usersData), usersAcc)

(***************************************************************************)
(* State                                                                    *)
(***************************************************************************)
VARIABLES
  \* MappingCache fields (deckNames and userNames, written by the loaders and
  \* read only by the debug listings, are left out)
  spaces, spaceNames, decks, deckPaths, users, initialized, lastRefresh,
  \* the registry: the index in Snapshots of what a fetch answers now
  registry,
  \* per caller: the fetch its initialize() is suspended on, or "idle"
  pc,
  \* history: the caller whose initialize() began while no other was in flight
  \* and has run undisturbed since (no other began, no registry change), or 0
  solo,
  \* history: the lookup maps when the initialize() of solo began
  before,
  \* config.spaceMapping, config.deckMapping, config.userMapping
  spaceMapping, deckMapping, userMapping,
  \* the last resolve call: operation, input and result
  observed,
  \* the running parser function ("parseCreateSection", "parseCreateBlockText"
  \* or "none") and its argument: section, or blockText
  which, section, blockText,
  \* its locals: the position in section.items (in lines), 0 before the
  \* function is entered; currentTask is << >> for null, else << task >>
  idx, deckPath, tasks, currentTask, currentOwner, lastIndent,
  \* whether it has returned (tasks is then the task list returned)
  returned,
  \* parseTaskMessage: its arguments event.text and event.blocks, whether it
  \* was called, what it returned
  eventText, eventBlocks, called, parsed,
  \* the Set processedEvents; the pending setTimeout callbacks, each with its
  \* key and the minutes since it was set; the number of events delivered
  processedEvents, timers, delivered,
  \* history: the number of deliveries the test of processedEvents has dropped
  duplicates,
  \* per handleEvent call: the await it is suspended on, or "idle"; the index
  \* in Events of its event; its locals tasksWithUuids and, in
  \* createCardsInCodecks, the position in validTasks, the results so far and
  \* the cardData of the pending createCard; the emoji of the pending reaction
  hpc, hevent, tasksWithUuids, cardIdx, cardResults, cardData, reaction,
  \* config.allowedChannels, config.defaultDeckId, config.defaultDeckName
  allowedChannels, defaultDeckId, defaultDeckName

cacheVars == << spaces, spaceNames, decks, deckPaths, users, initialized, lastRefresh >>

refreshVars == << registry, pc, solo, before >>

configVars == << spaceMapping, deckMapping, userMapping >>

argVars == << which, section, blockText >>

localVars == << idx, deckPath, tasks, currentTask, currentOwner, lastIndent, returned >>

messageVars == << eventText, eventBlocks, called, parsed >>

parserVars == << argVars, localVars, messageVars >>

resolverVars == << cacheVars, refreshVars, configVars, observed >>

handlerVars == << hpc, hevent, tasksWithUuids, cardIdx, cardResults, cardData, reaction >>

deployVars == << allowedChannels, defaultDeckId, defaultDeckName >>

eventVars == << processedEvents, timers, delivered, duplicates, handlerVars, deployVars >>

vars == << resolverVars, parserVars, eventVars >>

Callers == 1..NumCallers

\* what the resolve operations read
LookupMaps == [spaces |-> spaces, decks |-> decks, deckPaths |-> deckPaths, users |-> users]

(***************************************************************************)
(* MappingCache: resolution                                                 *)
(***************************************************************************)
\* an alias mapping is the sequence Object.entries() gives: [alias, fullName]
RECURSIVE FirstAlias(_, _)
FirstAlias(normalizedInput, aliasMapping) ==
  IF aliasMapping = <<>> THEN Null
  ELSE IF normalize(Head(aliasMapping).alias) = normalizedInput
       THEN Head(aliasMapping).fullName
       ELSE FirstAlias(normalizedInput, Tail(aliasMapping))

\* MappingCache.resolveAlias
resolveAlias(input, aliasMapping) ==
  IF ~Truthy(input) THEN input
  ELSE LET fullName == FirstAlias(normalize(input), aliasMapping)
       IN  IF fullName # Null THEN fullName ELSE input

\* MappingCache.resolveSpace
resolveSpace(input, aliasMapping) ==
  IF ~Truthy(input) THEN Null
  ELSE LET resolvedName == resolveAlias(input, aliasMapping)
           normalized == normalize(resolvedName)
           spaceId == MapGet(spaces, normalized)
       IN  IF Truthy(spaceId) THEN spaceId ELSE Null

\* resolveDeck looking the path up without the space alias
resolveDeck_noSpaceAlias(input, aliasMapping, spaceAliasMapping) ==
  IF ~Truthy(input) THEN Null
  ELSE LET resolvedPath == resolveAlias(input, aliasMapping)
       IN  IF Includes(resolvedPath, << "/" >>)
           THEN LET parts == Split(resolvedPath, "/")
                    spacePart == Trim(parts[1])
                    deckPart == Trim(parts[2])
                    fullPath == normalize(spacePart \o << "/" >> \o deckPart)
                    deckId == MapGet(deckPaths, fullPath)
                    normalized == normalize(deckPart)
                IN  IF Truthy(deckId) THEN deckId
                    ELSE IF MapHas(decks, normalized)
                         THEN decks[MapIndex(decks, normalized)].val.id
                         ELSE Null
           ELSE LET normalized == normalize(resolvedPath)
                IN  IF MapHas(decks, normalized)
                    THEN decks[MapIndex(decks, normalized)].val.id
                    ELSE Null

\* resolveDeck without the fallback to the plain deck name
resolveDeck_noFallback(input, aliasMapping, spaceAliasMapping) ==
  IF ~Truthy(input) THEN Null
  ELSE LET resolvedPath == resolveAlias(input, aliasMapping)
       IN  IF Includes(resolvedPath, << "/" >>)
           THEN LET parts == Split(resolvedPath, "/")
                    spacePart == Trim(parts[1])
                    deckPart == Trim(parts[2])
                    resolvedSpace == resolveAlias(spacePart, spaceAliasMapping)
                    fullPath == normalize(resolvedSpace \o << "/" >> \o deckPart)
                    deckId == MapGet(deckPaths, fullPath)
                IN  IF Truthy(deckId) THEN deckId ELSE Null
           ELSE LET normalized == normalize(resolvedPath)
                IN  IF MapHas(decks, normalized)
                    THEN decks[MapIndex(decks, normalized)].val.id
                    ELSE Null

\* MappingCache.resolveDeck
resolveDeck(input, aliasMapping, spaceAliasMapping) ==
  IF ~Truthy(input) THEN Null
  ELSE LET resolvedPath == resolveAlias(input, aliasMapping)
       IN  IF Includes(resolvedPath, << "/" >>)
           THEN LET parts == Split(resolvedPath, "/")
                    spacePart == Trim(parts[1])
                    deckPart == Trim(parts[2])
                    resolvedSpace == resolveAlias(spacePart, spaceAliasMapping)
                    fullPath == normalize(resolvedSpace \o << "/" >> \o deckPart)
                    deckId == MapGet(deckPaths, fullPath)
                    normalized == normalize(deckPart)
                IN  IF Truthy(deckId) THEN deckId
                    ELSE IF MapHas(decks, normalized)
                         THEN decks[MapIndex(decks, normalized)].val.id
                         ELSE Null
           ELSE LET normalized == normalize(resolvedPath)
                IN  IF MapHas(decks, normalized)
                    THEN decks[MapIndex(decks, normalized)].val.id
                    ELSE Null

\* the loop of resolveUser over users.entries()
RECURSIVE FuzzyUser(_, _)
FuzzyUser(normalized, entries) ==
  IF entries = <<>> THEN Null
  ELSE IF Includes(Head(entries).key, normalized) \/ Includes(normalized, Head(entries).key)
       THEN Head(entries).val
       ELSE FuzzyUser(normalized, Tail(entries))

\* resolveUser without the loop over users.entries()
resolveUser_exactOnly(input, aliasMapping) ==
  IF ~Truthy(input) THEN Null
  ELSE LET userId == MapGet(users, normalize(resolveAlias(input, aliasMapping)))
       IN  IF Truthy(userId) THEN userId ELSE Null

\* resolveUser with the loop over users.entries() before the exact lookup
resolveUser_fuzzyFirst(input, aliasMapping) ==
  IF ~Truthy(input) THEN Null
  ELSE LET normalized == normalize(resolveAlias(input, aliasMapping))
           fuzzy == FuzzyUser(normalized, users)
       IN  IF fuzzy # Null THEN fuzzy ELSE MapGet(users, normalized)

\* MappingCache.resolveUser
resolveUser(input, aliasMapping) ==
  IF ~Truthy(input) THEN Null
  ELSE LET resolvedName == resolveAlias(input, aliasMapping)
           normalized == normalize(resolvedName)
           userId == MapGet(users, normalized)
       IN  IF Truthy(userId) THEN userId ELSE FuzzyUser(normalized, users)

(***************************************************************************)
(* The cache under refresh: initialize() suspends at each of its three      *)
(* fetches, and any other handler of the event loop may run meanwhile       *)
(***************************************************************************)
sMT == << "M", "T" >>
sMTBacklog == << "M", "T", "/", "B", "a", "c", "k", "l", "o", "g" >>
sTobiasz == << "T", "o", "b", "i", "a", "s", "z" >>

\* the alias maps of the deployment the refresh model runs with
DeployedSpaceMapping == << [alias |-> sMT, fullName |-> sMATXA] >>

\* the names the handlers of the refresh model resolve
ProbeSpaces == {sMT, sArt}
ProbeDecks == {sMTBacklog, sTodo}
ProbeUsers == {sAna, sTobiasz}

\* no section, no result
NoSection == [createLine |-> <<>>, items |-> <<>>]

NoResult == [tasks |-> <<>>, deckPath |-> Null]

\* no parser function is running and parseTaskMessage has not been called
LocalsFresh ==
  /\ idx = 0 /\ deckPath = Null /\ tasks = <<>> /\ currentTask = <<>>
  /\ currentOwner = Null /\ lastIndent = -1 /\ returned = FALSE

MessageIdle == eventText = Null /\ eventBlocks = <<>> /\ called = FALSE /\ parsed = NoResult

Handlers == 1..NumHandlers

NoResults == [success |-> <<>>, failed |-> <<>>]

NoCard == [content |-> <<>>, deckId |-> Null, assigneeId |-> Null,
           priority |-> "b", putOnHand |-> FALSE]

\* no handleEvent call is suspended
HandlersIdle ==
  /\ hpc = [h \in Handlers |-> "idle"]
  /\ hevent = [h \in Handlers |-> 0]
  /\ tasksWithUuids = [h \in Handlers |-> <<>>]
  /\ cardIdx = [h \in Handlers |-> 0]
  /\ cardResults = [h \in Handlers |-> NoResults]
  /\ cardData = [h \in Handlers |-> NoCard]
  /\ reaction = [h \in Handlers |-> "none"]

\* the process has started and no event has arrived
EventIdle ==
  /\ processedEvents = {}
  /\ timers = {}
  /\ delivered = 0
  /\ duplicates = 0
  /\ HandlersIdle
  /\ allowedChannels = <<>> /\ defaultDeckId = Null /\ defaultDeckName = Null

ParserIdle ==
  /\ which = "none" /\ section = NoSection /\ blockText = <<>>
  /\ LocalsFresh
  /\ MessageIdle

NoCall == [op |-> "none", input |-> <<>>, result |-> Null]

\* the value of before while no undisturbed initialize() is in flight
NoMaps == [spaces |-> EmptyMap, decks |-> EmptyMap, deckPaths |-> EmptyMap,
           users |-> EmptyMap]

CacheEmpty ==
  /\ spaces = EmptyMap /\ spaceNames = EmptyMap
  /\ decks = EmptyMap /\ deckPaths = EmptyMap
  /\ users = EmptyMap
  /\ initialized = FALSE
  /\ lastRefresh = 0

Init ==
  /\ CacheEmpty
  /\ registry \in 1..Len(Snapshots)
  /\ pc = [p \in Callers |-> "idle"]
  /\ solo = 0
  /\ before = NoMaps
  /\ spaceMapping = DeployedSpaceMapping
  /\ deckMapping = <<>>
  /\ userMapping = <<>>
  /\ observed = NoCall
  /\ ParserIdle
  /\ EventIdle

\* initialize() up to its first await
Begin(p) ==
  /\ pc[p] = "idle"
  /\ lastRefresh < MaxRefreshes
  /\ pc' = [pc EXCEPT ![p] = "listProjects"]
  /\ IF \A r \in Callers : pc[r] = "idle"
     THEN solo' = p /\ before' = LookupMaps
     ELSE solo' = 0 /\ before' = NoMaps
  /\ UNCHANGED << cacheVars, registry, configVars, observed >>
  /\ UNCHANGED << parserVars, eventVars >>

\* MappingCache.refresh, called by '!refresh' and POST /refresh-cache
refresh(p) == Begin(p)

\* MappingCache.initialize, called by a handler that finds the cache
\* uninitialized
initialize(p) == ~initialized /\ Begin(p)

\* listProjects answers: the rest of loadSpaces, up to the next await
loadSpaces(p) ==
  /\ pc[p] = "listProjects"
  /\ LET r == FillSpaces(Snapshots[registry].projects, EmptyMap, EmptyMap)
     IN  spaces' = r.spaces /\ spaceNames' = r.spaceNames
  /\ pc' = [pc EXCEPT ![p] = "listDecksWithSpaces"]
  /\ UNCHANGED << decks, deckPaths, users, initialized, lastRefresh, registry,
                  solo, before, configVars, observed >>
  /\ UNCHANGED << parserVars, eventVars >>

\* listDecksWithSpaces answers: the rest of loadDecks, up to the next await
loadDecks(p) ==
  /\ pc[p] = "listDecksWithSpaces"
  /\ LET r == FillDecks(Snapshots[registry].decks, spaceNames, EmptyMap, EmptyMap)
     IN  decks' = r.decks /\ deckPaths' = r.deckPaths
  /\ pc' = [pc EXCEPT ![p] = "listUsers"]
  /\ UNCHANGED << spaces, spaceNames, users, initialized, lastRefresh, registry,
                  solo, before, configVars, observed >>
  /\ UNCHANGED << parserVars, eventVars >>

\* the history variables once the initialize() of p has ended
EndOf(p) ==
  IF solo = p THEN solo' = 0 /\ before' = NoMaps ELSE UNCHANGED << solo, before >>

\* listUsers answers: the rest of loadUsers and of initialize
loadUsers(p) ==
  /\ pc[p] = "listUsers"
  /\ users' = FillUsers(Snapshots[registry].users, EmptyMap)
  /\ initialized' = TRUE
  /\ lastRefresh' = lastRefresh + 1
  /\ pc' = [pc EXCEPT ![p] = "idle"]
  /\ EndOf(p)
  /\ UNCHANGED << spaces, spaceNames, decks, deckPaths, registry, configVars,
                  observed >>
  /\ UNCHANGED << parserVars, eventVars >>

\* a catch block that marks the cache as uninitialized again
initializeCatch_resetsFlag(p) ==
  /\ pc[p] # "idle"
  /\ pc' = [pc EXCEPT ![p] = "idle"]
  /\ EndOf(p)
  /\ initialized' = FALSE
  /\ UNCHANGED << spaces, spaceNames, decks, deckPaths, users, lastRefresh >>
  /\ UNCHANGED << registry, configVars, observed >>
  /\ UNCHANGED << parserVars, eventVars >>

\* the pending fetch throws: the catch block of initialize rethrows
initializeCatch(p) ==
  /\ pc[p] # "idle"
  /\ pc' = [pc EXCEPT ![p] = "idle"]
  /\ EndOf(p)
  /\ UNCHANGED << cacheVars, registry, configVars, observed >>
  /\ UNCHANGED << parserVars, eventVars >>

\* an operator edits the registry
RegistryChange ==
  /\ \E i \in 1..Len(Snapshots) : i # registry /\ registry' = i
  /\ solo' = 0 /\ before' = NoMaps
  /\ UNCHANGED << cacheVars, pc, configVars, observed >>
  /\ UNCHANGED << parserVars, eventVars >>

\* a handler resolves a space name
resolveSpaceCall(inputs) ==
  /\ \E input \in inputs :
       observed' = [op |-> "resolveSpace", input |-> input,
                    result |-> resolveSpace(input, spaceMapping)]
  /\ UNCHANGED << cacheVars, refreshVars, configVars >>
  /\ UNCHANGED << parserVars, eventVars >>

\* a handler resolves a deck path
resolveDeckCall(inputs) ==
  /\ \E input \in inputs :
       observed' = [op |-> "resolveDeck", input |-> input,
                    result |-> resolveDeck(input, deckMapping, spaceMapping)]
  /\ UNCHANGED << cacheVars, refreshVars, configVars >>
  /\ UNCHANGED << parserVars, eventVars >>

\* a handler resolves an assignee
resolveUserCall(inputs) ==
  /\ \E input \in inputs :
       observed' = [op |-> "resolveUser", input |-> input,
                    result |-> resolveUser(input, userMapping)]
  /\ UNCHANGED << cacheVars, refreshVars, configVars >>
  /\ UNCHANGED << parserVars, eventVars >>

Next ==
  \/ \E p \in Callers : refresh(p)
  \/ \E p \in Callers : initialize(p)
  \/ \E p \in Callers : loadSpaces(p)
  \/ \E p \in Callers : loadDecks(p)
  \/ \E p \in Callers : loadUsers(p)
  \/ \E p \in Callers : initializeCatch(p)
  \/ RegistryChange
  \/ resolveSpaceCall(ProbeSpaces)
  \/ resolveDeckCall(ProbeDecks)
  \/ resolveUserCall(ProbeUsers)

Spec == Init /\ [][Next]_vars

\* CodecksClient.request awaits fetch(url, {method, headers, body}): no
\* signal, no timer. A request the registry leaves without an answer neither
\* resolves nor rejects, so no step of the program follows it.
SilentRequest == "listUsers"

\* the fetch of an answered request fails: the catch block of initialize
\* rethrows
requestThrows(p) == pc[p] # SilentRequest /\ initializeCatch(p)

\* the refresh model while the registry answers listProjects and
\* listDecksWithSpaces and never answers listUsers
NextSilent ==
  \/ \E p \in Callers : refresh(p)
  \/ \E p \in Callers : initialize(p)
  \/ \E p \in Callers : loadSpaces(p)
  \/ \E p \in Callers : loadDecks(p)
  \/ \E p \in Callers : requestThrows(p)
  \/ RegistryChange

\* the call of p leaves an await whose request the registry answers: the
\* fetch resolves or rejects and the event loop runs the continuation
settles(p) ==
  /\ pc[p] \in {"listProjects", "listDecksWithSpaces"}
  /\ pc' \in [Callers -> {"idle", "listProjects", "listDecksWithSpaces", "listUsers"}]
  /\ pc'[p] # pc[p]

\* every answered request settles; nothing is promised for the silent one
SpecSilent ==
  /\ Init
  /\ [][NextSilent]_vars
  /\ \A p \in Callers : WF_pc(settles(p))

(***************************************************************************)
(* Resolution on a loaded cache (specification SpecResolve): the cache is   *)
(* what one complete initialize() leaves, the alias maps are those of the   *)
(* configuration, and each step is one resolve call.                        *)
(***************************************************************************)
\* most entries an alias map of the model has
MaxAliases == 2

smt == << "m", "t" >>
sLab == << "L", "a", "b" >>
sBL == << "B", "L" >>
sTB == << "T", "B" >>
sZed == << "Z", "e", "d" >>
sbacklog == << "b", "a", "c", "k", "l", "o", "g" >>

\* registry contents for the resolution model: Snapshots, and one registry
\* with a project whose name is a single space and one with the letter l
sUIUX == << "U", "I", "/", "U", "X" >>

ResolveSnapshots ==
  << Snapshots[2],
     [ projects |-> << [id |-> Id("p1"), name |-> sMATXA],
                       [id |-> Id("p3"), name |-> << " " >>],
                       [id |-> Id("p4"), name |-> sLab],
                       [id |-> Id("p2"), name |-> sArt] >>,
       decks    |-> << [id |-> Id("d1"), name |-> sBacklog,
                        project |-> [id |-> Id("p1"), name |-> sMATXA]],
                       [id |-> Id("d4"), name |-> sTodo,
                        project |-> [id |-> Id("p4"), name |-> sLab]],
                       [id |-> Id("d5"), name |-> sBacklog,
                        project |-> [id |-> Id("p2"), name |-> sArt]],
                       [id |-> Id("d7"), name |-> sUIUX,
                        project |-> [id |-> Id("p2"), name |-> sArt]] >>,
       users    |-> << [id |-> Id("u1"), name |-> sTobiaszNowak],
                       [id |-> Id("u2"), name |-> sAna],
                       [id |-> Id("u3"), name |-> sTobiasz],
                       [id |-> Id("u4"), name |-> << " " >>] >> ] >>

\* the state one complete initialize() against the registry snap leaves
CacheLoadedFrom(snap) ==
  LET s == FillSpaces(snap.projects, EmptyMap, EmptyMap)
      d == FillDecks(snap.decks, s.spaceNames, EmptyMap, EmptyMap)
  IN  /\ spaces = s.spaces /\ spaceNames = s.spaceNames
      /\ decks = d.decks /\ deckPaths = d.deckPaths
      /\ users = FillUsers(snap.users, EmptyMap)
      /\ initialized = TRUE
      /\ lastRefresh = 1

SeqsUpTo(S, n) == UNION {[1..k -> S] : k \in 0..n}

\* an object has each key once
DistinctKeys(m) == \A i, j \in 1..Len(m) : i # j => m[i].alias # m[j].alias

\* SPACE_MAPPING: short codes and names as keys, full names as values
SpaceMappings ==
  {m \in SeqsUpTo([alias : {sMT, smt, sMATXA}, fullName : {sMATXA, sArt}], MaxAliases) :
     DistinctKeys(m)}

\* DECK_MAPPING and USER_MAPPING: empty, or the short code of the README
DeckMappings == {<<>>, << [alias |-> sBL, fullName |-> sBacklog] >>}

UserMappings == {<<>>, << [alias |-> sTB, fullName |-> sTobiasz] >>}

\* the names resolveSpace is called with
SpaceInputs ==
  { sMT, smt, << " ", "m", "T", " " >>,
    sMATXA, << "m", "a", " ", "t", "x", "a" >>, << "M", "A_ogonek", " ", "T", "X", "A" >>,
    sArt, << "a", "R", "t", " " >>, << "A_ogonek", "r", "t" >>,
    sLab, << "L_stroke", "a", "b" >>, << "l_stroke", "A", "B" >>,
    sZed, <<>>, << " " >>, << " ", " " >> }

\* the space and deck parts of the paths resolveDeck is called with
SpaceParts == { sMT, smt, << "M", "T", " " >>, sMATXA, sArt, sZed }

DeckParts == { sBacklog, << " ", "b", "a", "c", "k", "l", "o", "g" >>, sTodo, sZed }

PathInputs == {S \o << "/" >> \o D : S \in SpaceParts, D \in DeckParts}

DeckInputs ==
  PathInputs \cup { sBacklog, sBL, sTodo, sZed, <<>>, sUIUX, sArt \o << "/" >> \o sUIUX }

UserInputs ==
  { sAna, sTobiasz, sTB, sTobiaszNowak, sZed, <<>>, << " " >>,
    << "a" >>, << "A", "n", "a", "s" >> }

InitResolve ==
  /\ \E i \in 1..Len(ResolveSnapshots) : CacheLoadedFrom(ResolveSnapshots[i])
  /\ registry = 1
  /\ pc = [p \in Callers |-> "idle"]
  /\ solo = 0
  /\ before = NoMaps
  /\ spaceMapping \in SpaceMappings
  /\ deckMapping \in DeckMappings
  /\ userMapping \in UserMappings
  /\ observed = NoCall
  /\ ParserIdle
  /\ EventIdle

NextResolve ==
  \/ resolveSpaceCall(SpaceInputs)
  \/ resolveDeckCall(DeckInputs)
  \/ resolveUserCall(UserInputs)

SpecResolve == InitResolve /\ [][NextResolve]_vars

(***************************************************************************)
(* Message parser v5.3: the regular expressions                             *)
(***************************************************************************)
sCreate == << "[", "C", "r", "e", "a", "t", "e", "]" >>

\* the characters \p{L} matches; the text has no combining mark (\p{M}) left
\* on its own
IsLetter(c) ==
  \/ \E i \in 1..Len(UpperLetters) : c = UpperLetters[i] \/ c = LowerLetters[i]
  \/ c \in {"o_acute", "e_grave", "a_tilde", "n_tilde"}

AllSpace(s) == \A i \in 1..Len(s) : IsSpace(s[i])

HasLineTerminator(s) == \E i \in 1..Len(s) : IsLineTerminator(s[i])

\* the first position of the character c in s at or after i, 0 if there is none
FirstAt(s, c, i) ==
  LET P == {k \in i..Len(s) : s[k] = c}
  IN  IF P = {} THEN 0 ELSE Min(P)

\* assigneeRegex = /\(([^)]+)\)\s*$/ : the positions where a match can start
AssigneeStarts(s) ==
  {i \in 1..Len(s) :
     /\ s[i] = "("
     /\ LET j == FirstAt(s, ")", i + 1)
        IN  j > i + 1 /\ AllSpace(From(s, j + 1))}

\* title.match(assigneeRegex): the leftmost match and its group
assigneeRegex(s) ==
  IF AssigneeStarts(s) = {} THEN [found |-> FALSE, index |-> 0, name |-> <<>>]
  ELSE LET i == Min(AssigneeStarts(s))
       IN  [found |-> TRUE, index |-> i,
            name |-> SubSeq(s, i + 1, FirstAt(s, ")", i + 1) - 1)]

\* checkboxRegex = /^\[([xX\s]?)\]\s*(.*)$/ : \s* takes all the white space
\* after the bracket, and . matches no line terminator
checkboxRegex(content) ==
  LET n == Len(content)
      close == IF n >= 2 /\ content[1] = "[" /\ content[2] = "]" THEN 2
               ELSE IF /\ n >= 3 /\ content[1] = "["
                       /\ (content[2] \in {"x", "X"} \/ IsSpace(content[2]))
                       /\ content[3] = "]" THEN 3
               ELSE 0
      rest == TrimStart(From(content, close + 1))
  IN  IF close = 0 \/ HasLineTerminator(rest)
      THEN [found |-> FALSE, mark |-> <<>>, text |-> <<>>]
      ELSE [found |-> TRUE, mark |-> SubSeq(content, 2, close - 1), text |-> rest]

\* /^[\p{L}\p{M}\s.'-]+:?\s*$/u
OwnerChar(c) == IsLetter(c) \/ IsSpace(c) \/ c \in {".", "'", "-"}

OwnerPattern(t) ==
  \E k \in 1..Len(t) :
    /\ \A i \in 1..k : OwnerChar(t[i])
    /\ LET r == From(t, k + 1)
       IN  AllSpace(r) \/ (r[1] = ":" /\ AllSpace(Tail(r)))

\* text.length > 50
OwnerHeaderMaxLength == 50

\* isOwnerHeader
isOwnerHeader(text) ==
  IF ~Truthy(text) \/ Includes(text, << "[" >>) \/ Includes(text, << "]" >>) THEN FALSE
  ELSE LET t == Trim(text)
       IN  t # <<>> /\ Len(t) <= OwnerHeaderMaxLength /\ OwnerPattern(t)

\* .replace(/:+\s*$/, ''): the colons that end the text, and the white space
\* after them
RECURSIVE DropColons(_)
DropColons(s) ==
  IF s # <<>> /\ s[Len(s)] = ":" THEN DropColons(SubSeq(s, 1, Len(s) - 1)) ELSE s

StripColons(s) ==
  LET u == TrimEnd(s)
  IN  IF u # <<>> /\ u[Len(u)] = ":" THEN DropColons(u) ELSE s

\* extractOwnerName
extractOwnerName(text) == Trim(StripColons(Trim(text)))

\* textOwnerRegex = /^([\p{L}\p{M}\s.'-]+):?\s*$/u
textOwnerRegex(t) == OwnerPattern(t)

\* /\[Deck:\s*([^\]]+)\]/i matches at the position i
DeckTagAt(s, i) ==
  /\ i + 5 <= Len(s)
  /\ ToLowerCase(SubSeq(s, i, i + 5)) = << "[", "d", "e", "c", "k", ":" >>
  /\ FirstAt(s, "]", i + 6) > i + 6

\* const dm = s.match(/\[Deck:\s*([^\]]+)\]/i); if (dm) deckPath = dm[1].trim()
DeckTag(s) ==
  LET P == {i \in 1..Len(s) : DeckTagAt(s, i)}
  IN  IF P = {} THEN Null
      ELSE LET i == Min(P)
           IN  Trim(SubSeq(s, i + 6, FirstAt(s, "]", i + 6) - 1))

\* BULLET_CHARS, the characters of the class as the source file holds them
BULLET_CHARS ==
  { "low_quote", "A_diaeresis", "cent", "o_acute", "pilcrow", "-", "*", "pound",
    "e_grave", "a_tilde", "n_tilde", "trade_mark", "n_ary_product" }

\* the class of textBulletRegex
TextBulletChars ==
  { "-", "low_quote", "A_diaeresis", "cent", "o_acute", "pilcrow", "*", "pound" }

\* what ^(\s*)([class])\s+ leaves of the line: the indent and the rest
BulletPrefix(line, class) ==
  LET w == Len(line) - Len(TrimStart(line))
      after == From(line, w + 1)
  IN  IF Len(after) >= 2 /\ after[1] \in class /\ IsSpace(after[2])
      THEN [found |-> TRUE, indent |-> w, rest |-> From(after, 3)]
      ELSE [found |-> FALSE, indent |-> 0, rest |-> <<>>]

\* bulletRegex with the bullet character optional: a line without a bullet is
\* a bullet line at its own indent
bulletRegex_optionalBullet(line) ==
  LET p == BulletPrefix(line, BULLET_CHARS)
      content == TrimStart(p.rest)
  IN  IF p.found /\ ~HasLineTerminator(content)
      THEN [found |-> TRUE, indent |-> p.indent, content |-> content]
      ELSE [found |-> TRUE, indent |-> Len(line) - Len(TrimStart(line)),
            content |-> TrimStart(line)]

\* bulletRegex = ^(\s*)([BULLET_CHARS])\s+(.*)$ : groups 1 (its length) and 3
bulletRegex(line) ==
  LET p == BulletPrefix(line, BULLET_CHARS)
      content == TrimStart(p.rest)
  IN  IF p.found /\ ~HasLineTerminator(content)
      THEN [found |-> TRUE, indent |-> p.indent, content |-> content]
      ELSE [found |-> FALSE, indent |-> 0, content |-> <<>>]

\* textBulletRegex = /^(\s*)([-...])\s+(.+)$/ : (.+) needs one character, which
\* \s+ gives back when only white space follows the bullet
textBulletRegex(line) ==
  LET p == BulletPrefix(line, TextBulletChars)
      content == IF TrimStart(p.rest) # <<>> THEN TrimStart(p.rest)
                 ELSE IF p.rest # <<>> THEN << p.rest[Len(p.rest)] >>
                 ELSE <<>>
  IN  IF p.found /\ content # <<>> /\ ~HasLineTerminator(content)
      THEN [found |-> TRUE, indent |-> p.indent, content |-> content]
      ELSE [found |-> FALSE, indent |-> 0, content |-> <<>>]

\* indent <= 1 ? 0 : indent <= 4 ? 1 : 2
Level(indent) == IF indent <= 1 THEN 0 ELSE IF indent <= 4 THEN 1 ELSE 2

(***************************************************************************)
(* Message parser v5.3: the section parser and the text fallback            *)
(***************************************************************************)
\* the locals of a parser function before its loop
FreshLocals == [tasks |-> <<>>, currentTask |-> <<>>, currentOwner |-> Null, lastIndent |-> -1]

\* TaskFromTitle with the owner of the header winning over the inline name
TaskFromTitle_headerWins(content, owner) ==
  LET am == assigneeRegex(content)
  IN  [title |-> IF am.found THEN Trim(SubSeq(content, 1, am.index - 1)) ELSE content,
       assigneeName |-> IF owner # Null THEN owner
                        ELSE IF am.found THEN Trim(am.name) ELSE owner,
       description |-> <<>>,
       checkboxes |-> <<>>]

\* a level-0 item: the task its content opens under the owner of the header
TaskFromTitle(content, owner) ==
  LET am == assigneeRegex(content)
  IN  [title |-> IF am.found THEN Trim(SubSeq(content, 1, am.index - 1)) ELSE content,
       assigneeName |-> IF am.found THEN Trim(am.name) ELSE owner,
       description |-> <<>>,
       checkboxes |-> <<>>]

\* AddBodyLine without the blank line
AddBodyLine_noBlank(task, content, prefix, blank) ==
  LET cm == checkboxRegex(content)
  IN  IF cm.found
      THEN [task EXCEPT !.checkboxes = Append(@, [text |-> Trim(cm.text),
                                                  checked |-> ToLowerCase(cm.mark) = << "x" >>])]
      ELSE [task EXCEPT !.description = Append(@, prefix \o content)]

\* an item below the title: a blank line first when blank is set, then the
\* content as a checkbox, or as a description line behind the prefix
AddBodyLine(task, content, prefix, blank) ==
  LET cm == checkboxRegex(content)
      description == IF blank THEN Append(task.description, <<>>) ELSE task.description
  IN  IF cm.found
      THEN [task EXCEPT !.description = description,
                        !.checkboxes = Append(@, [text |-> Trim(cm.text),
                                                  checked |-> ToLowerCase(cm.mark) = << "x" >>])]
      ELSE [task EXCEPT !.description = Append(description, prefix \o content)]

\* an owner header that leaves the open task open
OwnerHeader_keepsTask(st, name) ==
  [st EXCEPT !.currentOwner = name, !.lastIndent = -1]

\* if (currentTask) { tasks.push(currentTask); currentTask = null; }
\* currentOwner = name; lastIndent = -1
OwnerHeader(st, name) ==
  [tasks |-> st.tasks \o st.currentTask, currentTask |-> <<>>,
   currentOwner |-> name, lastIndent |-> -1]

\* a list item, where an item below the title level opens a task when none is
\* open
ListItem_orphanOpensTask(st, level, content) ==
  IF level = 0 \/ st.currentTask = <<>>
  THEN [st EXCEPT !.tasks = st.tasks \o st.currentTask,
                  !.currentTask = << TaskFromTitle(content, st.currentOwner) >>,
                  !.lastIndent = 0]
  ELSE IF level = 1
  THEN [st EXCEPT !.currentTask = << AddBodyLine(st.currentTask[1], content, <<>>,
                                                 st.lastIndent >= 2) >>,
                  !.lastIndent = 1]
  ELSE [st EXCEPT !.currentTask = << AddBodyLine(st.currentTask[1], content,
                                                 << "-", " " >>, FALSE) >>,
                  !.lastIndent = level]

\* a list item at the level of its indent
ListItem(st, level, content) ==
  IF level = 0
  THEN [st EXCEPT !.tasks = st.tasks \o st.currentTask,
                  !.currentTask = << TaskFromTitle(content, st.currentOwner) >>,
                  !.lastIndent = 0]
  ELSE IF level = 1 /\ st.currentTask # <<>>
  THEN [st EXCEPT !.currentTask = << AddBodyLine(st.currentTask[1], content, <<>>,
                                                 st.lastIndent >= 2) >>,
                  !.lastIndent = 1]
  ELSE IF level >= 2 /\ st.currentTask # <<>>
  THEN [st EXCEPT !.currentTask = << AddBodyLine(st.currentTask[1], content,
                                                 << "-", " " >>, FALSE) >>,
                  !.lastIndent = level]
  ELSE st

\* one iteration of the loop of parseCreateSection
SectionStep(st, item) ==
  IF ~item.isList
  THEN IF isOwnerHeader(item.text) THEN OwnerHeader(st, extractOwnerName(item.text)) ELSE st
  ELSE IF ~Truthy(item.text) THEN st
  ELSE ListItem(st, item.indent, item.text)

\* one iteration of the loop of parseCreateBlockText
TextStep(st, line) ==
  LET trimmed == Trim(line)
      bm == bulletRegex(line)
  IN  IF trimmed = <<>> THEN st
      ELSE IF ~bm.found
      THEN IF textOwnerRegex(trimmed) /\ ~Includes(trimmed, << "[" >>)
           THEN OwnerHeader(st, Trim(StripColons(trimmed)))
           ELSE st
      ELSE ListItem(st, Level(bm.indent), Trim(bm.content))

RECURSIVE SectionLoop(_, _)
SectionLoop(st, items) ==
  IF items = <<>> THEN st ELSE SectionLoop(SectionStep(st, Head(items)), Tail(items))

\* parseCreateSection
parseCreateSection(sec) ==
  LET st == SectionLoop(FreshLocals, sec.items)
  IN  [tasks |-> st.tasks \o st.currentTask, deckPath |-> DeckTag(sec.createLine)]

RECURSIVE TextLoop(_, _)
TextLoop(st, rest) ==
  IF rest = <<>> THEN st ELSE TextLoop(TextStep(st, Head(rest)), Tail(rest))

\* parseCreateBlockText
parseCreateBlockText(blockTextArg) ==
  LET st == TextLoop(FreshLocals, Tail(Split(blockTextArg, "\n")))
  IN  [tasks |-> st.tasks \o st.currentTask, deckPath |-> DeckTag(blockTextArg)]

\* for (const task of tasks) { task.deckPath = deckPath; allTasks.push(task); }
WithDeckPath(taskList, path) ==
  [k \in 1..Len(taskList) |->
     [title |-> taskList[k].title, assigneeName |-> taskList[k].assigneeName,
      description |-> taskList[k].description, checkboxes |-> taskList[k].checkboxes,
      deckPath |-> path]]

\* the loop of parseFromText and of parseFromBlocks over the parsed sections
RECURSIVE Collect(_, _, _)
Collect(results, allTasks, firstDeckPath) ==
  IF results = <<>> THEN [tasks |-> allTasks, deckPath |-> firstDeckPath]
  ELSE LET r == Head(results)
       IN  Collect(Tail(results), allTasks \o WithDeckPath(r.tasks, r.deckPath),
                   IF firstDeckPath = Null /\ Truthy(r.deckPath) THEN r.deckPath
                   ELSE firstDeckPath)

\* the loop of splitIntoCreateBlocks over the lines of the message
RECURSIVE SplitBlocks(_, _, _, _)
SplitBlocks(rest, cur, active, acc) ==
  LET flushed == IF cur # <<>> THEN Append(acc, Join(cur, << "\n" >>)) ELSE acc
  IN  IF rest = <<>> THEN flushed
      ELSE IF Includes(Head(rest), sCreate)
           THEN SplitBlocks(Tail(rest), << Head(rest) >>, TRUE, flushed)
           ELSE IF active THEN SplitBlocks(Tail(rest), Append(cur, Head(rest)), active, acc)
           ELSE SplitBlocks(Tail(rest), cur, active, acc)

\* splitIntoCreateBlocks
splitIntoCreateBlocks(message) == SplitBlocks(Split(message, "\n"), <<>>, FALSE, <<>>)

\* parseFromText
parseFromText(message) ==
  LET blockTexts == splitIntoCreateBlocks(message)
  IN  Collect([k \in 1..Len(blockTexts) |-> parseCreateBlockText(blockTexts[k])], <<>>, Null)

(***************************************************************************)
(* Message parser v5.3: the rich text blocks.  An absent array is the empty *)
(* sequence, an absent string the empty string and an absent indent 0: the  *)
(* code reads each of them through a test or a default that makes them the  *)
(* same.  An emoji's unicode is the sequence of its hyphen-separated code   *)
(* points.                                                                  *)
(***************************************************************************)
sUndefined == << "u", "n", "d", "e", "f", "i", "n", "e", "d" >>

\* `${value}` of a string that may be absent
Interpolate(value) == IF value = Null THEN sUndefined ELSE value

\* String.fromCodePoint(parseInt(el.unicode, 16)): parseInt reads the digits
\* up to the first hyphen
FromCodePoint(unicode) == << "U+" \o unicode[1] >>

\* the text of one rich text element
ElementText(el) ==
  CASE el.type = "text"    -> el.text
    [] el.type = "link"    -> IF el.text # <<>> THEN el.text ELSE el.url
    [] el.type = "emoji"   -> IF el.unicode # <<>> THEN FromCodePoint(el.unicode)
                              ELSE << ":" >> \o Interpolate(el.name) \o << ":" >>
    [] el.type = "user"    -> << "<", "@" >> \o Interpolate(el.id) \o << ">" >>
    [] el.type = "channel" -> << "<", "#" >> \o Interpolate(el.id) \o << ">" >>
    [] OTHER               -> el.text

\* extractText
RECURSIVE extractText(_)
extractText(elements) ==
  IF elements = <<>> THEN <<>>
  ELSE ElementText(Head(elements)) \o extractText(Tail(elements))

\* the item a line of a rich_text_section gives
LineItem(line) ==
  LET m == textBulletRegex(line)
  IN  IF m.found
      THEN [text |-> Trim(m.content), indent |-> Level(m.indent), isList |-> TRUE]
      ELSE [text |-> Trim(line), indent |-> -1, isList |-> FALSE]

RECURSIVE LineItems(_)
LineItems(rest) ==
  IF rest = <<>> THEN <<>>
  ELSE IF Trim(Head(rest)) = <<>> THEN LineItems(Tail(rest))
  ELSE << LineItem(Head(rest)) >> \o LineItems(Tail(rest))

\* the items of a rich_text_list: one per rich_text_section among its elements
RECURSIVE ListItems(_, _)
ListItems(lis, indent) ==
  IF lis = <<>> THEN <<>>
  ELSE IF Head(lis).type = "rich_text_section"
       THEN << [text |-> Trim(extractText(Head(lis).elements)), indent |-> indent,
                isList |-> TRUE] >> \o ListItems(Tail(lis), indent)
       ELSE ListItems(Tail(lis), indent)

\* the loop of flattenRichTextBlock over block.elements
RECURSIVE FlattenElements(_)
FlattenElements(elements) ==
  IF elements = <<>> THEN <<>>
  ELSE LET element == Head(elements)
       IN  (CASE element.type = "rich_text_section" ->
                   LineItems(Split(Trim(extractText(element.elements)), "\n"))
              [] element.type = "rich_text_list" ->
                   ListItems(element.elements, element.indent)
              [] OTHER -> <<>>)
           \o FlattenElements(Tail(elements))

\* flattenRichTextBlock
flattenRichTextBlock(block) == FlattenElements(block.elements)

\* the loop of splitByCreate; cur is << >> for null, else << section >>
RECURSIVE SplitItems(_, _, _)
SplitItems(items, cur, sections) ==
  IF items = <<>> THEN sections \o cur
  ELSE LET item == Head(items)
       IN  IF Includes(item.text, sCreate)
           THEN SplitItems(Tail(items), << [createLine |-> item.text, items |-> <<>>] >>,
                           sections \o cur)
           ELSE IF cur # <<>>
                THEN SplitItems(Tail(items),
                                << [cur[1] EXCEPT !.items = Append(@, item)] >>, sections)
                ELSE SplitItems(Tail(items), cur, sections)

\* splitByCreate with a section open before the first marker
splitByCreate_openAtStart(items) ==
  SplitItems(items, << [createLine |-> <<>>, items |-> <<>>] >>, <<>>)

\* splitByCreate
splitByCreate(items) == SplitItems(items, <<>>, <<>>)

\* the sections of the rich_text blocks, in order
RECURSIVE BlockSections(_)
BlockSections(blockList) ==
  IF blockList = <<>> THEN <<>>
  ELSE IF Head(blockList).type # "rich_text" THEN BlockSections(Tail(blockList))
  ELSE splitByCreate(flattenRichTextBlock(Head(blockList))) \o BlockSections(Tail(blockList))

\* parseFromBlocks
parseFromBlocks(blockList) ==
  LET sections == BlockSections(blockList)
  IN  Collect([k \in 1..Len(sections) |-> parseCreateSection(sections[k])], <<>>, Null)

\* parseTaskMessage reading the blocks before it looks for '[Create]'
parseTaskMessage_blocksFirst(textArg, blocksArg) ==
  LET messageText == IF Truthy(textArg) THEN textArg ELSE <<>>
  IN  IF blocksArg # <<>> THEN parseFromBlocks(blocksArg)
      ELSE IF ~Includes(messageText, sCreate) THEN NoResult
      ELSE parseFromText(messageText)

\* parseTaskMessage falling back to the text when the blocks give no task
parseTaskMessage_textWhenNoTask(textArg, blocksArg) ==
  LET messageText == IF Truthy(textArg) THEN textArg ELSE <<>>
  IN  IF ~Includes(messageText, sCreate) THEN NoResult
      ELSE IF blocksArg # <<>> /\ parseFromBlocks(blocksArg).tasks # <<>>
      THEN parseFromBlocks(blocksArg)
      ELSE parseFromText(messageText)

\* parseTaskMessage
parseTaskMessage(textArg, blocksArg) ==
  LET messageText == IF Truthy(textArg) THEN textArg ELSE <<>>
  IN  IF ~Includes(messageText, sCreate) THEN NoResult
      ELSE IF blocksArg # <<>> THEN parseFromBlocks(blocksArg)
      ELSE parseFromText(messageText)

(***************************************************************************)
(* Card content builder, and the calls a handler makes to it                *)
(***************************************************************************)
\* the loop over task.checkboxes: content += `\n- [${...}] ${cb.text}`
RECURSIVE AppendCheckboxes(_, _)
AppendCheckboxes(content, checkboxes) ==
  IF checkboxes = <<>> THEN content
  ELSE LET cb == Head(checkboxes)
       IN  AppendCheckboxes(content \o << "\n", "-", " ", "[" >>
                              \o (IF cb.checked THEN << "x" >> ELSE << " " >>)
                              \o << "]", " " >> \o cb.text,
                            Tail(checkboxes))

\* buildCardContent without the content += '\n' before the checkboxes
buildCardContent_noSeparator(task) ==
  LET content == IF Len(task.description) > 0
                 THEN task.title \o << "\n", "\n" >> \o Join(task.description, << "\n" >>)
                 ELSE task.title
  IN  AppendCheckboxes(content, task.checkboxes)

\* buildCardContent
buildCardContent(task) ==
  LET content == IF Len(task.description) > 0
                 THEN task.title \o << "\n", "\n" >> \o Join(task.description, << "\n" >>)
                 ELSE task.title
  IN  IF Len(task.checkboxes) > 0
      THEN AppendCheckboxes(content \o << "\n" >>, task.checkboxes)
      ELSE content

\* createCardsInCodecks builds the body of the card of a task
buildCardContentCall(taskSet) ==
  /\ \E task \in taskSet :
       observed' = [op |-> "buildCardContent", input |-> task,
                    result |-> buildCardContent(task)]
  /\ UNCHANGED << cacheVars, refreshVars, configVars >>
  /\ UNCHANGED << parserVars, eventVars >>

\* parseFromBlocks splits the flat items of a block
splitByCreateCall(itemLists) ==
  /\ \E items \in itemLists :
       observed' = [op |-> "splitByCreate", input |-> items,
                    result |-> splitByCreate(items)]
  /\ UNCHANGED << cacheVars, refreshVars, configVars >>
  /\ UNCHANGED << parserVars, eventVars >>

(***************************************************************************)
(* The parser functions step by step (specifications SpecSection and        *)
(* SpecCheckbox): the argument is fixed when the function is entered, each   *)
(* step is one iteration of its loop.                                       *)
(***************************************************************************)
\* most items of a section, most lines below the [Create] line of a block
MaxItems == 3

\* most characters of the list item content the checkbox model draws
MaxContent == 3

sCreateDeckArt == << "[", "C", "r", "e", "a", "t", "e", "]", " ", "[", "D", "e", "c",
                     "k", ":", " ", "A", "r", "t", "]" >>

Item(t, n, l) == [text |-> t, indent |-> n, isList |-> l]

\* the items a section is made of
SectionItems ==
  { Item(<< "F", "i", "x", " ", "b", "u", "g", " ", "(", "P", "i", "o", "t", "r", ")" >>, 0, TRUE),
    Item(<< "F", "i", "x", " ", "b", "u", "g", "2" >>, 0, TRUE),
    Item(<< "d", "e", "s", "c" >>, 1, TRUE),
    Item(<< "d", "e", "s", "c" >>, 2, TRUE),
    Item(<< "[", " ", "]", " ", "t", "o", "d", "o" >>, 3, TRUE),
    Item(<< "[", "x", "]", " ", "d", "o", "n", "e" >>, 1, TRUE),
    Item(<<>>, 1, TRUE),
    Item(<<>>, 0, TRUE),
    Item(<< "A", "n", "a", ":" >>, -1, FALSE),
    Item(<< "s", "e", "e", " ", "[", "1", "]" >>, -1, FALSE) }

\* a line of words longer than OwnerHeaderMaxLength
sLongLine ==
  << "N", "o", "t", "e", "s", " ", "f", "o", "r", " ", "t", "h", "e", " ", "w", "h", "o", "l", "e", " ", "t", "e", "a", "m",
     " ", "a", "b", "o", "u", "t", " ", "t", "h", "e", " ", "t", "a", "s", "k", "s", " ", "o", "f", " ", "t", "h", "i", "s", " ", "w", "e", "e", "k" >>

\* the lines a block of text is made of below its [Create] line
TextLines ==
  { << "-", " ", "F", "i", "x", " ", "b", "u", "g", " ", "(", "P", "i", "o", "t", "r",
       ")" >>,
    << "-", " ", "F", "i", "x", " ", "b", "u", "g", "2" >>,
    << " ", " ", "-", " ", "d", "e", "s", "c" >>,
    << " ", " ", " ", " ", " ", " ", "-", " ", "d", "e", "s", "c" >>,
    << " ", " ", " ", " ", " ", "*", " ", "[", " ", "]", " ", "t", "o", "d", "o" >>,
    << " ", " ", "-", " ", "[", "x", "]", " ", "d", "o", "n", "e" >>,
    << " ", " ", "-", " " >>,
    << "A", "n", "a", ":" >>,
    << "s", "e", "e", " ", "[", "1", "]" >>,
    sLongLine }

Sections ==
  {[createLine |-> sCreateDeckArt, items |-> s] : s \in SeqsUpTo(SectionItems, MaxItems)}

BlockTexts ==
  {Join(<< sCreateDeckArt >> \o s, << "\n" >>) : s \in SeqsUpTo(TextLines, MaxItems)}

\* the characters the drawn list item contents are made of
CheckboxAlphabet == {"[", "]", "x", "X", "y", " ", "\n"}

CheckboxContents ==
  (SeqsUpTo(CheckboxAlphabet, MaxContent) \ {<<>>})
    \cup { << "[", "x", "]", " ", "a", "\n", "b" >>,
           << "[", "\t", "]", " ", "a" >>,
           << "[", "y", "]", " ", "f", "o", "o" >>,
           << "[", "X", "]", " ", "D", "o", "n", "e" >> }

sTask == << "T", "a", "s", "k" >>

\* a title and one item below it, at indent 1 or 2
CheckboxSections ==
  {[createLine |-> sCreate, items |-> << Item(sTask, 0, TRUE), Item(c, n, TRUE) >>] :
     c \in CheckboxContents, n \in {1, 2}}

\* no cache, no resolve call
ResolverIdle ==
  /\ CacheEmpty
  /\ registry = 1
  /\ pc = [p \in Callers |-> "idle"]
  /\ solo = 0
  /\ before = NoMaps
  /\ spaceMapping = <<>> /\ deckMapping = <<>> /\ userMapping = <<>>
  /\ observed = NoCall

InitSection ==
  /\ ResolverIdle
  /\ EventIdle
  /\ MessageIdle
  /\ LocalsFresh
  /\ \/ which = "parseCreateSection" /\ section \in Sections /\ blockText = <<>>
     \/ which = "parseCreateBlockText" /\ blockText \in BlockTexts /\ section = NoSection

InitCheckbox ==
  /\ ResolverIdle
  /\ EventIdle
  /\ MessageIdle
  /\ LocalsFresh
  /\ which = "parseCreateSection" /\ section \in CheckboxSections /\ blockText = <<>>

\* the locals of the running function
Locals ==
  [tasks |-> tasks, currentTask |-> currentTask, currentOwner |-> currentOwner,
   lastIndent |-> lastIndent]

SetLocals(st) ==
  /\ tasks' = st.tasks
  /\ currentTask' = st.currentTask
  /\ currentOwner' = st.currentOwner
  /\ lastIndent' = st.lastIndent

\* const lines = blockText.split('\n')
lines == Split(blockText, "\n")

\* parseCreateSection up to its loop
parseCreateSectionEnter ==
  /\ which = "parseCreateSection" /\ idx = 0
  /\ deckPath' = DeckTag(section.createLine)
  /\ idx' = 1
  /\ UNCHANGED << tasks, currentTask, currentOwner, lastIndent, returned >>
  /\ UNCHANGED << argVars, messageVars, resolverVars, eventVars >>

\* one iteration: for (const item of section.items)
parseCreateSectionItem ==
  /\ which = "parseCreateSection" /\ idx \in 1..Len(section.items)
  /\ SetLocals(SectionStep(Locals, section.items[idx]))
  /\ idx' = idx + 1
  /\ UNCHANGED << deckPath, returned, argVars, messageVars, resolverVars, eventVars >>

\* if (currentTask) tasks.push(currentTask); return { tasks, deckPath }
parseCreateSectionReturn ==
  /\ which = "parseCreateSection" /\ idx = Len(section.items) + 1 /\ ~returned
  /\ tasks' = tasks \o currentTask
  /\ returned' = TRUE
  /\ UNCHANGED << idx, deckPath, currentTask, currentOwner, lastIndent >>
  /\ UNCHANGED << argVars, messageVars, resolverVars, eventVars >>

\* parseCreateBlockText up to its loop, which begins at the second line
parseCreateBlockTextEnter ==
  /\ which = "parseCreateBlockText" /\ idx = 0
  /\ deckPath' = DeckTag(blockText)
  /\ idx' = 2
  /\ UNCHANGED << tasks, currentTask, currentOwner, lastIndent, returned >>
  /\ UNCHANGED << argVars, messageVars, resolverVars, eventVars >>

\* one iteration: for (let i = 1; i < lines.length; i++)
parseCreateBlockTextLine ==
  /\ which = "parseCreateBlockText" /\ idx \in 2..Len(lines)
  /\ SetLocals(TextStep(Locals, lines[idx]))
  /\ idx' = idx + 1
  /\ UNCHANGED << deckPath, returned, argVars, messageVars, resolverVars, eventVars >>

\* if (currentTask) tasks.push(currentTask); return { tasks, deckPath }
parseCreateBlockTextReturn ==
  /\ which = "parseCreateBlockText" /\ idx = Len(lines) + 1 /\ ~returned
  /\ tasks' = tasks \o currentTask
  /\ returned' = TRUE
  /\ UNCHANGED << idx, deckPath, currentTask, currentOwner, lastIndent >>
  /\ UNCHANGED << argVars, messageVars, resolverVars, eventVars >>

NextSection ==
  \/ parseCreateSectionEnter
  \/ parseCreateSectionItem
  \/ parseCreateSectionReturn
  \/ parseCreateBlockTextEnter
  \/ parseCreateBlockTextLine
  \/ parseCreateBlockTextReturn
  \/ returned /\ buildCardContentCall({tasks[i] : i \in 1..Len(tasks)})

SpecSection == InitSection /\ [][NextSection]_vars

NextCheckbox ==
  \/ parseCreateSectionEnter
  \/ parseCreateSectionItem
  \/ parseCreateSectionReturn

SpecCheckbox == InitCheckbox /\ [][NextCheckbox]_vars

(***************************************************************************)
(* parseTaskMessage on a message (specification SpecMessage)                *)
(***************************************************************************)
\* most lines of a message below its first line
MaxLines == 2

\* the message of the plain-text scenario
ScenarioText ==
  << "[", "C", "r", "e", "a", "t", "e", "]", " ", "[", "D", "e", "c", "k", ":", " ",
     "A", "r", "t", "]", "\n", "T", "a", "s", "k", " ", "A", " ", "(", "B", "o", "b",
     ")", "\n", " ", " ", "-", " ", "d", "e", "s", "c", "1", "\n", " ", " ", " ", " ",
     "-", " ", "n", "e", "s", "t", "e", "d", "1", "\n", " ", " ", "-", " ", "d", "e",
     "s", "c", "2", "\n" >>

MessageHeads ==
  { sCreateDeckArt,
    sCreate,
    << "h", "e", "l", "l", "o" >>,
    << "[", "c", "r", "e", "a", "t", "e", "]", " ", "[", "D", "e", "c", "k", ":", " ",
       "A", "r", "t", "]" >> }

MessageLines ==
  { << "T", "a", "s", "k", " ", "A", " ", "(", "B", "o", "b", ")" >>,
    << "-", " ", "T", "a", "s", "k", " ", "B" >>,
    << " ", " ", "-", " ", "d", "e", "s", "c", "1" >>,
    << " ", " ", " ", " ", " ", " ", "-", " ", "n", "e", "s", "t", "e", "d", "1" >>,
    << "B", "o", "b", ":" >>,
    <<>>,
    << "[", "C", "r", "e", "a", "t", "e", "]", " ", "[", "D", "e", "c", "k", ":", " ",
       "C", "o", "d", "e", "]" >>,
    << " ", " ", "-", " ", "[", "x", "]", " ", "d", "o", "n", "e" >>,
    << "-", " ", "(", "B", "o", "b", ")" >>,
    << "-", " ", "T", " ", "[", "D", "e", "c", "k", ":", " ", "Z", "e", "d", "]" >> }

Messages ==
  {Null, <<>>, ScenarioText}
    \cup {Join(<< h >> \o b, << "\n" >>) : h \in MessageHeads, b \in SeqsUpTo(MessageLines, MaxLines)}

TextElement(t) ==
  [type |-> "text", text |-> t, url |-> <<>>, unicode |-> <<>>, name |-> Null, id |-> Null]

RichTextSection(elements) == [type |-> "rich_text_section", elements |-> elements, indent |-> 0]

RichTextList(indent, lis) == [type |-> "rich_text_list", elements |-> lis, indent |-> indent]

\* event.blocks: none; a block that is not rich text; rich text with a
\* [Create] line and a list below it; rich text without a [Create] line
BlockInputs ==
  { <<>>,
    << [type |-> "divider", elements |-> <<>>] >>,
    << [type |-> "rich_text",
        elements |->
          << RichTextSection(<< TextElement(sCreateDeckArt) >>),
             RichTextList(0, << RichTextSection(<< TextElement(<< "T", "a", "s", "k",
                                                                  " ", "C", " ", "(",
                                                                  "B", "o", "b", ")" >>) >>) >>),
             RichTextList(1, << RichTextSection(<< TextElement(<< "d", "e", "s", "c",
                                                                  "1" >>) >>),
                                RichTextSection(<< TextElement(<< "[", "x", "]", " ",
                                                                  "d", "o", "n", "e" >>) >>) >>) >>] >>,
    << [type |-> "rich_text",
        elements |->
          << RichTextSection(<< TextElement(<< "h", "e", "l", "l", "o" >>) >>),
             RichTextList(0, << RichTextSection(<< TextElement(<< "T", "a", "s", "k",
                                                                  " ", "C", " ", "(",
                                                                  "B", "o", "b", ")" >>) >>) >>) >>] >>,
    << [type |-> "rich_text",
        elements |->
          << RichTextSection(<< TextElement(sCreate) >>),
             RichTextList(0, << RichTextSection(<< TextElement(<< "(", "B", "o", "b", ")" >>) >>) >>),
             RichTextList(1, << RichTextSection(<< TextElement(<< "d", "e", "s", "c", "1" >>) >>) >>) >>] >> }

InitMessage ==
  /\ ResolverIdle
  /\ EventIdle
  /\ which = "none" /\ section = NoSection /\ blockText = <<>>
  /\ LocalsFresh
  /\ eventText \in Messages
  /\ eventBlocks \in BlockInputs
  /\ called = FALSE
  /\ parsed = NoResult

\* the handler parses the message of the event
parseTaskMessageCall ==
  /\ ~called
  /\ parsed' = parseTaskMessage(eventText, eventBlocks)
  /\ called' = TRUE
  /\ UNCHANGED << eventText, eventBlocks, argVars, localVars, resolverVars, eventVars >>

NextMessage ==
  \/ parseTaskMessageCall
  \/ called /\ buildCardContentCall({parsed.tasks[i] : i \in 1..Len(parsed.tasks)})

SpecMessage == InitMessage /\ [][NextMessage]_vars

(***************************************************************************)
(* Message parser v4.1 (src/src/parser.js): one task per line without a     *)
(* bullet, or the first top-level bullet as the title                       *)
(***************************************************************************)
\* bulletRegex = /^(\s*)([-*bullet])\s+(.*)$/ of parseCreateBlock
bulletRegex41(line) ==
  LET p == BulletPrefix(line, {"-", "bullet", "*"})
      content == TrimStart(p.rest)
  IN  IF p.found /\ ~HasLineTerminator(content)
      THEN [found |-> TRUE, indent |-> p.indent, content |-> content]
      ELSE [found |-> FALSE, indent |-> 0, content |-> <<>>]

\* \s+(.+) on the rest r of the first line: \s+ gives back its last
\* character when nothing else follows
TitleGroup(r) ==
  LET K == {k \in 2..Len(r) : AllSpace(SubSeq(r, 1, k - 1)) /\ ~IsLineTerminator(r[k])}
  IN  IF K = {} THEN Null
      ELSE LET t == From(r, Max(K))
               E == {e \in 1..Len(t) : IsLineTerminator(t[e])}
           IN  IF E = {} THEN t ELSE SubSeq(t, 1, Min(E) - 1)

\* createWithTitleRegex = /\[Create\](?:\s*\[Deck:[^\]]+\])?\s+(.+)/i :
\* group 1 of the leftmost match, with the deck tag taken when the rest
\* still matches
createWithTitleRegex(firstLine) ==
  LET At(i) ==
        LET after == From(firstLine, i + 8)
            tag == TrimStart(after)
            tagged == IF DeckTagAt(tag, 1)
                      THEN TitleGroup(From(tag, FirstAt(tag, "]", 7) + 1))
                      ELSE Null
        IN  IF tagged # Null THEN tagged ELSE TitleGroup(after)
      P == {i \in 1..Len(firstLine) :
              /\ i + 7 <= Len(firstLine)
              /\ ToLowerCase(SubSeq(firstLine, i, i + 7)) = ToLowerCase(sCreate)
              /\ At(i) # Null}
  IN  IF P = {} THEN Null ELSE At(Min(P))

\* titlePart.replace(/\[Deck:[^\]]+\]\s*/gi, '')
RECURSIVE RemoveDeckTags(_)
RemoveDeckTags(t) ==
  LET P == {i \in 1..Len(t) : DeckTagAt(t, i)}
  IN  IF P = {} THEN t
      ELSE LET i == Min(P)
           IN  SubSeq(t, 1, i - 1)
                 \o RemoveDeckTags(TrimStart(From(t, FirstAt(t, "]", i + 6) + 1)))

\* the locals of parseCreateBlock after the first line
FirstLine41(firstLine) ==
  LET m == createWithTitleRegex(firstLine)
      titlePart == IF m = Null THEN <<>> ELSE Trim(RemoveDeckTags(Trim(m)))
  IN  IF titlePart # <<>>
      THEN [tasks |-> <<>>, currentTask |-> << TaskFromTitle(titlePart, Null) >>,
            hasNonBulletTitle |-> TRUE]
      ELSE [tasks |-> <<>>, currentTask |-> <<>>, hasNonBulletTitle |-> FALSE]

\* one pass of the loop of parseCreateBlock over lines[i], i >= 1
Line41(st, line) ==
  LET trimmedLine == Trim(line)
      bm == bulletRegex41(line)
      content == Trim(bm.content)
      cm == checkboxRegex(content)
  IN  IF trimmedLine = <<>> THEN st
      ELSE IF bm.found
      THEN IF bm.indent <= 1 /\ ~st.hasNonBulletTitle /\ st.currentTask = <<>>
           THEN [st EXCEPT !.currentTask =
                   << TaskFromTitle(IF cm.found THEN Trim(cm.text) ELSE content, Null) >>]
           ELSE IF st.currentTask = <<>> THEN st
           ELSE [st EXCEPT !.currentTask =
                   << AddBodyLine(st.currentTask[1], content,
                                  IF bm.indent >= 5
                                  THEN << " ", " ", " ", "bullet", " " >> ELSE <<>>,
                                  FALSE) >>]
      ELSE IF trimmedLine[1] = "[" /\ Includes(trimmedLine, << "]" >>) THEN st
      ELSE [tasks |-> st.tasks \o st.currentTask,
            currentTask |-> << TaskFromTitle(trimmedLine, Null) >>,
            hasNonBulletTitle |-> TRUE]

\* the loop of parseCreateBlock
RECURSIVE Lines41(_, _)
Lines41(st, rest) ==
  IF rest = <<>> THEN st ELSE Lines41(Line41(st, Head(rest)), Tail(rest))

\* parseCreateBlock of src/src/parser.js
parseCreateBlock(blockTextArg) ==
  LET ls == Split(blockTextArg, "\n")
      st == Lines41(FirstLine41(Head(ls)), Tail(ls))
  IN  [tasks |-> st.tasks \o st.currentTask, deckPath |-> DeckTag(blockTextArg)]

\* parseTaskMessage of src/src/parser.js, without the blocks field
parseTaskMessage41(message) ==
  IF ~Truthy(message) \/ ~Includes(message, sCreate) THEN NoResult
  ELSE LET blockTexts == splitIntoCreateBlocks(message)
       IN  Collect([k \in 1..Len(blockTexts) |-> parseCreateBlock(blockTexts[k])],
                   <<>>, Null)

(***************************************************************************)
(* The pure functions on drawn arguments (specification SpecCalls)          *)
(***************************************************************************)
\* most description lines, and most checkboxes, of a drawn task record
MaxBody == 2

\* task records: titles, description lines and checkbox texts as the parser
\* stores them
CardTasks ==
  [ title : {<< "T" >>, << "T", " ", "(", "v", "2", ")" >>},
    description : SeqsUpTo({<< "a" >>, <<>>, << "-", " ", "[", "x", "]", " ", "a" >>, << "-", " ", "a" >>}, MaxBody),
    checkboxes : SeqsUpTo([text : {<< "a" >>, <<>>}, checked : BOOLEAN], MaxBody) ]

\* flat item lists, with and without items that hold the [Create] token
ItemLists ==
  SeqsUpTo({ Item(sCreate, -1, FALSE),
             Item(sCreateDeckArt, -1, FALSE),
             Item(<< "F", "i", "x", " ", "[", "C", "r", "e", "a", "t", "e", "]", " ", "b", "u", "g" >>, 0, TRUE),
             Item(<< "T", "a", "s", "k" >>, 0, TRUE),
             Item(<< "A", "n", "a", ":" >>, -1, FALSE) }, MaxItems)

\* inline nodes: well formed ones of each kind, and ones without the field
\* their kind reads
Nodes ==
  { TextElement(<< "a" >>),
    TextElement(<<>>),
    [type |-> "link", text |-> <<>>, url |-> << "u" >>, unicode |-> <<>>, name |-> Null, id |-> Null],
    [type |-> "link", text |-> <<>>, url |-> <<>>, unicode |-> <<>>, name |-> Null, id |-> Null],
    [type |-> "emoji", text |-> <<>>, url |-> <<>>, unicode |-> << "1f600" >>, name |-> << "s" >>, id |-> Null],
    [type |-> "emoji", text |-> <<>>, url |-> <<>>, unicode |-> <<>>, name |-> << "s" >>, id |-> Null],
    [type |-> "emoji", text |-> <<>>, url |-> <<>>, unicode |-> <<>>, name |-> Null, id |-> Null],
    [type |-> "user", text |-> <<>>, url |-> <<>>, unicode |-> <<>>, name |-> Null, id |-> << "U", "1" >>],
    [type |-> "user", text |-> <<>>, url |-> <<>>, unicode |-> <<>>, name |-> Null, id |-> Null],
    [type |-> "channel", text |-> <<>>, url |-> <<>>, unicode |-> <<>>, name |-> Null, id |-> Null],
    [type |-> "broadcast", text |-> << "b" >>, url |-> <<>>, unicode |-> <<>>, name |-> Null, id |-> Null],
    [type |-> "broadcast", text |-> <<>>, url |-> <<>>, unicode |-> <<>>, name |-> Null, id |-> Null] }

\* the bullet lines a rich_text_section is made of, by leading white space
BulletLines ==
  { [k \in 1..n |-> " "] \o << "-", " ", "a" >> : n \in 0..6 } \cup { << "\t", "\t", "\t", "\t", "\t", "-", " ", "a" >> }

\* rich_text blocks of one section of bullet lines
SectionBlocks ==
  { [type |-> "rich_text",
     elements |-> << RichTextSection(<< TextElement(Join(ls, << "\n" >>)) >>) >>] :
      ls \in SeqsUpTo(BulletLines, MaxLines) \ {<<>>} }

\* messages for the v4.1 parser: a marker line and bullets at each indent
sNormalnyOpis == << "bullet", " ", "N", "o", "r", "m", "a", "l", "n", "y", " ", "o", "p", "i", "s" >>
sWcietyOpis == << "bullet", " ", "W", "c", "i", "e_ogonek", "t", "y", " ", "o", "p", "i", "s" >>

Messages41 ==
  { Join(<< first >> \o body, << "\n" >>) :
      first \in { << "[", "C", "r", "e", "a", "t", "e", "]", " ", "T", "a", "s", "k" >>, sCreate, << "[", "C", "r", "e", "a", "t", "e", "]", " ", "[", "D", "e", "c", "k", ":", " ", "A", "r", "t", "]", " ", "T", "a", "s", "k", " ", "(", "B", "o", "b", ")" >> },
      body \in SeqsUpTo({ [k \in 1..n |-> " "] \o line :
                            n \in {0, 3, 5},
                            line \in { sNormalnyOpis, sWcietyOpis, << "-", " ", "[", "x", "]", " ", "c" >> } }
                         \cup { << "N", "e", "x", "t", " ", "(", "A", "n", "a", ")" >> },
                        MaxLines) }

\* messages of owner headers, titles with and without an assignee, body
\* lines and further [Create] lines, below a first [Create] line
MaxOwnerLines == 4

sBobHeader == << "B", "o", "b", ":" >>
sEveHeader == << "E", "v", "e", ":" >>
sTitleB == << "-", " ", "B" >>
sTitleTAna == << "-", " ", "T", " ", "(", "A", "n", "a", ")" >>
sBodyD == << " ", " ", "-", " ", "d" >>

OwnerMessages ==
  { Join(<< sCreate >> \o body, << "\n" >>) :
      body \in SeqsUpTo({sBobHeader, sEveHeader, sTitleB, sTitleTAna, sBodyD, sCreate},
                        MaxOwnerLines) }

\* event.blocks of a message typed as one paragraph
ParagraphBlocks(message) ==
  << [type |-> "rich_text",
      elements |-> << RichTextSection(<< TextElement(message) >>) >>] >>

InitCalls == ResolverIdle /\ ParserIdle /\ EventIdle

\* a handler calls a function and gets its result
Observe(op, input, result) ==
  /\ observed' = [op |-> op, input |-> input, result |-> result]
  /\ UNCHANGED << cacheVars, refreshVars, configVars >>
  /\ UNCHANGED << parserVars, eventVars >>

\* one call on one drawn argument
NextCalls ==
  \/ observed = NoCall /\ buildCardContentCall(CardTasks)
  \/ observed = NoCall /\ splitByCreateCall(ItemLists)
  \/ /\ observed = NoCall
     /\ \E block \in SectionBlocks :
          Observe("flattenRichTextBlock", block, flattenRichTextBlock(block))
  \/ /\ observed = NoCall
     /\ \E elements \in SeqsUpTo(Nodes, MaxLines) :
          Observe("extractText", elements, extractText(elements))
  \/ /\ observed = NoCall
     /\ \E message \in Messages41 :
          Observe("parseTaskMessage41", message, parseTaskMessage41(message))
  \/ /\ observed = NoCall
     /\ \E message \in OwnerMessages :
          \E blocks \in {<<>>, ParagraphBlocks(message)} :
            Observe("parseTaskMessage", [text |-> message, blocks |-> blocks],
                    parseTaskMessage(message, blocks))

SpecCalls == InitCalls /\ [][NextCalls]_vars

(***************************************************************************)
(* The Slack event handler (src/unnamed/part_000, specification SpecEvent): *)
(* handleEvent runs up to its next await in one step, and the handlers of   *)
(* other deliveries, the timers and the clock run in between.               *)
(***************************************************************************)
\* 10 * 60 * 1000 ms, in minutes
ExpiryMinutes == 10

sCreateDeckTodo == sCreate \o << " ", "[", "D", "e", "c", "k", ":", " " >> \o sTodo \o << "]" >>

sCreateDeckZed == sCreate \o << " ", "[", "D", "e", "c", "k", ":", " " >> \o sZed \o << "]" >>

sHelp == << "!", "H", "e", "l", "p", " " >>

sNoDeck == << "N", "o", " ", "d", "e", "c", "k" >>

sCacheError == << "C", "a", "c", "h", "e", " ", "e", "r", "r", "o", "r" >>

SlackEvent(cid, ts, bot, channel, text) ==
  [type |-> "message", subtype |-> Null, bot_id |-> bot, client_msg_id |-> cid,
   ts |-> ts, channel |-> channel, text |-> text, blocks |-> <<>>]

\* the events Slack delivers, each any number of times: a section for the deck
\* Todo; that section and one for the unknown deck Zed; a command; the bot's
\* own message; a section for Zed in another channel; a message without
\* [Create]
Events ==
  << SlackEvent(Id("c1"), Id("t1"), Null, "C1",
                sCreateDeckTodo \o << "\n" >> \o sTitleB),
     SlackEvent(Null, Id("t2"), Null, "C1",
                sCreateDeckTodo \o << "\n" >> \o sTitleB \o << "\n" >>
                  \o sCreateDeckZed \o << "\n" >> \o sTitleTAna),
     SlackEvent(Id("c3"), Id("t3"), Null, "C1", sHelp),
     SlackEvent(Null, Id("t4"), Id("B1"), "C1",
                sCreateDeckTodo \o << "\n" >> \o sTitleB),
     SlackEvent(Id("c5"), Id("t5"), Null, "C2",
                sCreateDeckZed \o << "\n" >> \o sTitleB),
     SlackEvent(Id("c6"), Id("t6"), Null, "C1", sTask) >>

\* the deployments, each with whether its startup initialize has succeeded:
\* no channel filter and no default deck; a channel filter and
\* DEFAULT_DECK_ID; DEFAULT_DECK_NAME
Deployments ==
  { [allowedChannels |-> <<>>, defaultDeckId |-> Null, defaultDeckName |-> Null,
     loaded |-> TRUE],
    [allowedChannels |-> << "C1" >>, defaultDeckId |-> Id("d0"), defaultDeckName |-> Null,
     loaded |-> FALSE],
    [allowedChannels |-> <<>>, defaultDeckId |-> Null, defaultDeckName |-> sBacklog,
     loaded |-> TRUE] }

\* event.type !== 'message' || event.subtype || event.bot_id
NotAUserMessage(event) ==
  event.type # "message" \/ Truthy(event.subtype) \/ Truthy(event.bot_id)

\* `${event.client_msg_id || event.ts}`
eventKey(event) == IF Truthy(event.client_msg_id) THEN event.client_msg_id ELSE event.ts

\* a test that finds no key
isDuplicate_never(key) == key \in {}

\* processedEvents.has(eventKey)
isDuplicate(key) == key \in processedEvents

\* the channel filter
OutsideAllowedChannels(event) ==
  /\ Len(allowedChannels) > 0
  /\ \A n \in 1..Len(allowedChannels) : allowedChannels[n] # event.channel

isCommand(message) ==
  /\ Truthy(message)
  /\ ToLowerCase(Trim(message)) \in
       { << "!", "h", "e", "l", "p" >>,
         << "!", "c", "o", "m", "m", "a", "n", "d", "s" >>,
         << "!", "s", "t", "a", "t", "u", "s" >>,
         << "!", "r", "e", "f", "r", "e", "s", "h" >> }

hasCreateCommand(message) == Truthy(message) /\ Includes(message, sCreate)

resolveDeckId(deckPathArg) ==
  IF ~Truthy(deckPathArg) THEN Null
  ELSE resolveDeck(deckPathArg, deckMapping, spaceMapping)

resolveDefaultDeck ==
  IF Truthy(defaultDeckName)
  THEN resolveDeck(defaultDeckName, deckMapping, spaceMapping)
  ELSE Null

\* the body of tasks.map(...) in handleEvent
TaskWithUuids(task, deckPathArg) ==
  LET taskDeckPath == IF Truthy(task.deckPath) THEN task.deckPath ELSE deckPathArg
      resolved == IF Truthy(taskDeckPath) THEN resolveDeckId(taskDeckPath) ELSE Null
      taskDeckId == IF Truthy(resolved) THEN resolved
                    ELSE IF Truthy(defaultDeckId) THEN defaultDeckId
                    ELSE resolveDefaultDeck
  IN  [task |-> task, deckId |-> taskDeckId,
       assigneeId |-> IF Truthy(task.assigneeName)
                      THEN resolveUser(task.assigneeName, userMapping)
                      ELSE Null]

\* parseTaskMessage on the event i, then tasks.map(...)
TasksWithUuids(i) ==
  LET r == parseTaskMessage(IF Truthy(Events[i].text) THEN Events[i].text ELSE <<>>,
                            Events[i].blocks)
  IN  [k \in 1..Len(r.tasks) |-> TaskWithUuids(r.tasks[k], r.deckPath)]

HasDeckId(t) == Truthy(t.deckId)

\* a filter that lets every task pass
validTasks_all(withUuids) == withUuids

\* tasksWithUuids.filter(t => t.deckId)
validTasks(withUuids) == SelectSeq(withUuids, HasDeckId)

\* the cardData createCardsInCodecks builds for a task
CardDataOf(t) ==
  [content |-> buildCardContent(t.task), deckId |-> t.deckId,
   assigneeId |-> t.assigneeId, priority |-> "b", putOnHand |-> Truthy(t.assigneeId)]

\* the emoji addReaction chooses
EmojiOf(res) == IF Len(res.failed) = 0 THEN "white_check_mark" ELSE "warning"

\* the handler h is suspended at an await, with these locals
Suspend(h, at, i, withUuids, n, res, card, emoji) ==
  /\ hpc' = [hpc EXCEPT ![h] = at]
  /\ hevent' = [hevent EXCEPT ![h] = i]
  /\ tasksWithUuids' = [tasksWithUuids EXCEPT ![h] = withUuids]
  /\ cardIdx' = [cardIdx EXCEPT ![h] = n]
  /\ cardResults' = [cardResults EXCEPT ![h] = res]
  /\ cardData' = [cardData EXCEPT ![h] = card]
  /\ reaction' = [reaction EXCEPT ![h] = emoji]

\* handleEvent returns
Return(h) == Suspend(h, "idle", 0, <<>>, 0, NoResults, NoCard, "none")

\* await addReaction(channel, ts, res)
AddReaction(h, i, withUuids, res) ==
  Suspend(h, "addReaction", i, withUuids, 0, res, NoCard, EmojiOf(res))

\* handleEvent from the parsed and resolved tasks on: up to the first
\* createCard, or to the reaction when no task has a deck
FromTasks(h, i, withUuids) ==
  IF withUuids = <<>> THEN Return(h)
  ELSE IF validTasks(withUuids) = <<>>
  THEN AddReaction(h, i, withUuids, [success |-> <<>>, failed |-> << sNoDeck >>])
  ELSE Suspend(h, "createCard", i, withUuids, 1, NoResults,
               CardDataOf(validTasks(withUuids)[1]), "none")

\* Slack delivers the event i and handleEvent runs up to its first await; the
\* call is the first one that is not suspended (the calls have no identity)
handleEvent(h, i) ==
  /\ hpc[h] = "idle"
  /\ \A g \in 1..(h - 1) : hpc[g] # "idle"
  /\ delivered < MaxDeliveries
  /\ delivered' = delivered + 1
  /\ LET event == Events[i]
         key == eventKey(event)
         messageText == IF Truthy(event.text) THEN event.text ELSE <<>>
     IN  IF NotAUserMessage(event)
         THEN UNCHANGED << processedEvents, timers, duplicates >> /\ Return(h)
         ELSE IF isDuplicate(key)
         THEN /\ duplicates' = duplicates + 1
              /\ UNCHANGED << processedEvents, timers >>
              /\ Return(h)
         ELSE /\ processedEvents' = processedEvents \cup {key}
              /\ UNCHANGED duplicates
              /\ timers' = timers \cup {[key |-> key, age |-> 0]}
              /\ IF OutsideAllowedChannels(event) THEN Return(h)
                 ELSE IF isCommand(messageText)
                 THEN Suspend(h, "handleCommand", i, <<>>, 0, NoResults, NoCard, "none")
                 ELSE IF ~hasCreateCommand(messageText) THEN Return(h)
                 ELSE IF ~initialized
                 THEN Suspend(h, "listProjects", i, <<>>, 0, NoResults, NoCard, "none")
                 ELSE FromTasks(h, i, TasksWithUuids(i))
  /\ UNCHANGED << resolverVars, parserVars, deployVars >>

\* handleCommand on !help: the response is posted
handleCommand(h) ==
  /\ hpc[h] = "handleCommand"
  /\ Return(h)
  /\ UNCHANGED << resolverVars, parserVars, processedEvents, timers, delivered, duplicates, deployVars >>

\* mappingCache.initialize of the handler h: listProjects answers
handlerLoadSpaces(h) ==
  /\ hpc[h] = "listProjects"
  /\ LET r == FillSpaces(Snapshots[registry].projects, EmptyMap, EmptyMap)
     IN  spaces' = r.spaces /\ spaceNames' = r.spaceNames
  /\ hpc' = [hpc EXCEPT ![h] = "listDecksWithSpaces"]
  /\ UNCHANGED << decks, deckPaths, users, initialized, lastRefresh >>
  /\ UNCHANGED << refreshVars, configVars, observed, parserVars >>
  /\ UNCHANGED << hevent, tasksWithUuids, cardIdx, cardResults, cardData, reaction >>
  /\ UNCHANGED << processedEvents, timers, delivered, duplicates, deployVars >>

\* listDecksWithSpaces answers
handlerLoadDecks(h) ==
  /\ hpc[h] = "listDecksWithSpaces"
  /\ LET r == FillDecks(Snapshots[registry].decks, spaceNames, EmptyMap, EmptyMap)
     IN  decks' = r.decks /\ deckPaths' = r.deckPaths
  /\ hpc' = [hpc EXCEPT ![h] = "listUsers"]
  /\ UNCHANGED << spaces, spaceNames, users, initialized, lastRefresh >>
  /\ UNCHANGED << refreshVars, configVars, observed, parserVars >>
  /\ UNCHANGED << hevent, tasksWithUuids, cardIdx, cardResults, cardData, reaction >>
  /\ UNCHANGED << processedEvents, timers, delivered, duplicates, deployVars >>

\* listUsers answers: the rest of loadUsers and of initialize, whose promise
\* resolves
handlerLoadUsers(h) ==
  /\ hpc[h] = "listUsers"
  /\ users' = FillUsers(Snapshots[registry].users, EmptyMap)
  /\ initialized' = TRUE
  /\ lastRefresh' = lastRefresh + 1
  /\ hpc' = [hpc EXCEPT ![h] = "initialize"]
  /\ UNCHANGED << spaces, spaceNames, decks, deckPaths >>
  /\ UNCHANGED << refreshVars, configVars, observed, parserVars >>
  /\ UNCHANGED << hevent, tasksWithUuids, cardIdx, cardResults, cardData, reaction >>
  /\ UNCHANGED << processedEvents, timers, delivered, duplicates, deployVars >>

\* handleEvent goes on after await mappingCache.initialize, up to its next
\* await
handleEventInitialized(h) ==
  /\ hpc[h] = "initialize"
  /\ FromTasks(h, hevent[h], TasksWithUuids(hevent[h]))
  /\ UNCHANGED << resolverVars, parserVars, processedEvents, timers, delivered, duplicates, deployVars >>

\* the pending fetch throws: handleEvent reports the cache error
handlerInitializeCatch(h) ==
  /\ hpc[h] \in {"listProjects", "listDecksWithSpaces", "listUsers"}
  /\ AddReaction(h, hevent[h], <<>>, [success |-> <<>>, failed |-> << sCacheError >>])
  /\ UNCHANGED << resolverVars, parserVars, processedEvents, timers, delivered, duplicates, deployVars >>

\* createCardsInCodecks after the createCard of the task n has ended with the
\* results res: the next createCard, or the reaction
NextCard(h, res) ==
  LET valid == validTasks(tasksWithUuids[h])
      n == cardIdx[h]
  IN  IF n < Len(valid)
      THEN Suspend(h, "createCard", hevent[h], tasksWithUuids[h], n + 1, res,
                   CardDataOf(valid[n + 1]), "none")
      ELSE AddReaction(h, hevent[h], tasksWithUuids[h], res)

\* createCard answers with the card
createCardReturns(h) ==
  /\ hpc[h] = "createCard"
  /\ LET title == validTasks(tasksWithUuids[h])[cardIdx[h]].task.title
     IN  NextCard(h, [cardResults[h] EXCEPT !.success = Append(@, title)])
  /\ UNCHANGED << resolverVars, parserVars, processedEvents, timers, delivered, duplicates, deployVars >>

\* createCard throws
createCardThrows(h) ==
  /\ hpc[h] = "createCard"
  /\ LET title == validTasks(tasksWithUuids[h])[cardIdx[h]].task.title
     IN  NextCard(h, [cardResults[h] EXCEPT !.failed = Append(@, title)])
  /\ UNCHANGED << resolverVars, parserVars, processedEvents, timers, delivered, duplicates, deployVars >>

\* reactions.add has ended (an error is logged only): handleEvent returns
addReaction(h) ==
  /\ hpc[h] = "addReaction"
  /\ Return(h)
  /\ UNCHANGED << resolverVars, parserVars, processedEvents, timers, delivered, duplicates, deployVars >>

\* TickMinutes minutes pass
Tick ==
  /\ \E t \in timers : t.age < ExpiryMinutes
  /\ timers' = {[t EXCEPT !.age = IF @ + TickMinutes < ExpiryMinutes
                                   THEN @ + TickMinutes ELSE ExpiryMinutes] : t \in timers}
  /\ UNCHANGED << resolverVars, parserVars, processedEvents, delivered, duplicates,
                  handlerVars, deployVars >>

\* a timer set ten minutes ago fires: processedEvents.delete(eventKey)
timerFires(t) ==
  /\ t \in timers
  /\ t.age >= ExpiryMinutes
  /\ timers' = timers \ {t}
  /\ processedEvents' = processedEvents \ {t.key}
  /\ UNCHANGED << resolverVars, parserVars, delivered, duplicates, handlerVars,
                  deployVars >>

\* the process starts with an empty cache, or its startup initialize has ended
InitEvent ==
  /\ registry = 2
  /\ pc = [p \in Callers |-> "idle"]
  /\ solo = 0
  /\ before = NoMaps
  /\ spaceMapping = <<>> /\ deckMapping = <<>> /\ userMapping = <<>>
  /\ observed = NoCall
  /\ ParserIdle
  /\ processedEvents = {}
  /\ timers = {}
  /\ delivered = 0
  /\ duplicates = 0
  /\ HandlersIdle
  /\ \E d \in Deployments :
       /\ allowedChannels = d.allowedChannels
       /\ defaultDeckId = d.defaultDeckId
       /\ defaultDeckName = d.defaultDeckName
       /\ IF d.loaded THEN CacheLoadedFrom(Snapshots[2]) ELSE CacheEmpty

NextEvent ==
  \/ \E h \in Handlers, i \in 1..Len(Events) : handleEvent(h, i)
  \/ \E h \in Handlers : handleCommand(h)
  \/ \E h \in Handlers : handlerLoadSpaces(h)
  \/ \E h \in Handlers : handlerLoadDecks(h)
  \/ \E h \in Handlers : handlerLoadUsers(h)
  \/ \E h \in Handlers : handleEventInitialized(h)
  \/ \E h \in Handlers : handlerInitializeCatch(h)
  \/ \E h \in Handlers : createCardReturns(h)
  \/ \E h \in Handlers : createCardThrows(h)
  \/ \E h \in Handlers : addReaction(h)
  \/ Tick
  \/ \E t \in timers : timerFires(t)

SpecEvent == InitEvent /\ [][NextEvent]_vars

(***************************************************************************)
(* Claims about the cache under refresh (specification Spec)                *)
(***************************************************************************)
\* two values of LookupMaps hold the same entries (and the same user order,
\* which resolveUser depends on)
SameMaps(a, b) ==
  /\ Entries(a.spaces) = Entries(b.spaces)
  /\ Entries(a.decks) = Entries(b.decks)
  /\ Entries(a.deckPaths) = Entries(b.deckPaths)
  /\ a.users = b.users

\* the lookup maps a complete load of snapshot i gives
LoadedMaps(i) ==
  LET s == FillSpaces(Snapshots[i].projects, EmptyMap, EmptyMap)
      d == FillDecks(Snapshots[i].decks, s.spaceNames, EmptyMap, EmptyMap)
  IN  [spaces |-> s.spaces, decks |-> d.decks, deckPaths |-> d.deckPaths,
       users |-> FillUsers(Snapshots[i].users, EmptyMap)]

\* C1: when an initialize()/refresh() that ran alone fails because one of its
\* three fetches throws, the spaces, decks, deckPaths and users maps hold
\* exactly what they held when it began.
C1_FailedRefreshKeepsMaps ==
  [][\A p \in Callers :
       (initializeCatch(p) /\ solo = p) => SameMaps(LookupMaps, before)]_vars

\* C2: a resolve call made while an initialize() that runs alone, against an
\* unchanged registry, is suspended between two fetches sees either the maps
\* as they were when it began or the maps a complete load gives, never a mix.
C2_ResolveSeesOneSnapshot ==
  [][(observed' # observed /\ solo # 0 /\ pc[solo] # "listProjects")
       => (SameMaps(LookupMaps, before) \/ SameMaps(LookupMaps, LoadedMaps(registry)))]_vars

(***************************************************************************)
(* Claims about resolution (specification SpecResolve)                      *)
(***************************************************************************)
\* the letters that differ only in case or in a diacritic
LetterFamilies ==
  { {UpperLetters[i], LowerLetters[i]} : i \in 1..Len(UpperLetters) }
    \cup { {"a", "A", "a_ogonek", "A_ogonek"}, {"l", "L", "l_stroke", "L_stroke"} }

SameLetter(c, d) == c = d \/ \E f \in LetterFamilies : c \in f /\ d \in f

\* a and b differ only in case, diacritics or surrounding whitespace
Variant(a, b) ==
  LET x == Trim(a)
      y == Trim(b)
  IN  Len(x) = Len(y) /\ \A i \in 1..Len(x) : SameLetter(x[i], y[i])

\* the entry i is the first of the alias map m whose key matches its own key
FirstMatch(m, i) == \A j \in 1..(i - 1) : ~Variant(m[j].alias, m[i].alias)

\* no key of the alias map m matches the name
NoKeyMatches(m, name) == \A j \in 1..Len(m) : ~Variant(m[j].alias, name)

\* C8 as stated: for every alias map, any two inputs that differ only in case,
\* diacritics or surrounding whitespace resolve to the same space, and any
\* variant of a key K of the map resolves to what the full name of K resolves to.
C8_VariantsResolveAlike ==
  observed.op = "resolveSpace" =>
    /\ \A b \in SpaceInputs :
         Variant(observed.input, b) => resolveSpace(b, spaceMapping) = observed.result
    /\ \A i \in 1..Len(spaceMapping) :
         Variant(observed.input, spaceMapping[i].alias)
           => observed.result = resolveSpace(spaceMapping[i].fullName, spaceMapping)

\* C8 amended: any two non-empty inputs that differ only in case, diacritics or
\* surrounding whitespace resolve to the same space; and a non-empty variant of
\* a key K resolves to what the full name F of K resolves to, when the entry of
\* K is the first of the map that matches K and F matches no key of the map.
C8_NonEmptyVariantsResolveAlike ==
  (observed.op = "resolveSpace" /\ observed.input # <<>>) =>
    /\ \A b \in SpaceInputs \ {<<>>} :
         Variant(observed.input, b) => resolveSpace(b, spaceMapping) = observed.result
    /\ \A i \in 1..Len(spaceMapping) :
         ( /\ Variant(observed.input, spaceMapping[i].alias)
           /\ FirstMatch(spaceMapping, i)
           /\ NoKeyMatches(spaceMapping, spaceMapping[i].fullName) )
           => observed.result = resolveSpace(spaceMapping[i].fullName, spaceMapping)

\* a variant of the key MT, in another case and with spaces around it, has
\* resolved through the alias to the space MA TXA
C8_Witness ==
  /\ observed.op = "resolveSpace"
  /\ observed.input = << " ", "m", "T", " " >>
  /\ spaceMapping = << [alias |-> sMT, fullName |-> sMATXA] >>
  /\ observed.result = Id("p1")

\* the full name the space part S of a path stands for under the alias map m
AliasTarget(S, m) ==
  IF S # <<>> /\ \E i \in 1..Len(m) : Variant(m[i].alias, S)
  THEN m[Min({i \in 1..Len(m) : Variant(m[i].alias, S)})].fullName
  ELSE S

\* the compound key of the path S/D
CompoundKey(S, D) == normalize(AliasTarget(Trim(S), spaceMapping) \o << "/" >> \o Trim(D))

\* C9: resolveDeck on a path S/D replaces S by its full name under the space
\* alias map and returns the id deckPaths holds under the normalized
\* 'space/deck' key, whenever deckPaths has that key.
C9_PathFoundInDeckPaths ==
  \A S \in SpaceParts, D \in DeckParts :
    ( /\ observed.op = "resolveDeck"
      /\ observed.input = S \o << "/" >> \o D
      /\ MapHas(deckPaths, CompoundKey(S, D)) )
      => observed.result = MapGet(deckPaths, CompoundKey(S, D))

\* the path mt/ backlog has resolved, through the alias MT of the space Art, to
\* the Backlog deck of Art, which is not the deck the plain name Backlog gives
C9_Witness ==
  /\ observed.op = "resolveDeck"
  /\ observed.input = smt \o << "/" >> \o << " ", "b", "a", "c", "k", "l", "o", "g" >>
  /\ spaceMapping = << [alias |-> sMT, fullName |-> sArt] >>
  /\ observed.result = Id("d2")
  /\ MapGet(decks, sbacklog).id = Id("d1")

\* C10: when deckPaths lacks the compound key of the path S/D, resolveDeck
\* returns the id the plain decks map holds under the normalized deck part D,
\* and null when decks has no such entry.
C10_PathFallsBackToDeckName ==
  \A S \in SpaceParts, D \in DeckParts :
    ( /\ observed.op = "resolveDeck"
      /\ observed.input = S \o << "/" >> \o D
      /\ ~MapHas(deckPaths, CompoundKey(S, D)) )
      => observed.result = IF MapHas(decks, normalize(D))
                           THEN MapGet(decks, normalize(D)).id
                           ELSE Null

\* the path Zed/Backlog names no space of the registry and has resolved to the
\* first deck named Backlog
C10_Witness ==
  /\ observed.op = "resolveDeck"
  /\ observed.input = sZed \o << "/" >> \o sBacklog
  /\ ~MapHas(deckPaths, CompoundKey(sZed, sBacklog))
  /\ observed.result = Id("d1")

(***************************************************************************)
(* Claims about the section parser and the text fallback (SpecSection)      *)
(***************************************************************************)
\* the n-th smallest element of a set of numbers
Nth(S, n) == CHOOSE x \in S : Cardinality({y \in S : y < x}) = n - 1

\* the items that open a task, and the owner headers before the item k
TitleItems(items) ==
  {k \in 1..Len(items) : items[k].isList /\ items[k].text # <<>> /\ items[k].indent = 0}

HeadersBefore(items, k) ==
  {h \in 1..(k - 1) : ~items[h].isList /\ isOwnerHeader(items[h].text)}

\* the name of the trailing '(Name)' of the title k when it has one, else the
\* name of the nearest owner header before it, else null
ExpectedAssignee(items, k) ==
  IF assigneeRegex(items[k].text).found THEN Trim(assigneeRegex(items[k].text).name)
  ELSE IF HeadersBefore(items, k) = {} THEN Null
  ELSE extractOwnerName(items[Max(HeadersBefore(items, k))].text)

\* C3: every task parseCreateSection returns has as assigneeName the name of
\* the trailing '(Name)' of its own title when it has one, and otherwise the
\* name of the most recent owner header before the title (null without one):
\* an inline name holds for its own task only.
C3_AssigneeFromSuffixOrHeader ==
  (which = "parseCreateSection" /\ returned) =>
    /\ Len(tasks) = Cardinality(TitleItems(section.items))
    /\ \A n \in 1..Len(tasks) :
         tasks[n].assigneeName
           = ExpectedAssignee(section.items, Nth(TitleItems(section.items), n))

\* the section 'Ana:', 'Fix bug (Piotr)', 'Fix bug2' has been parsed and gave
\* the assignees Piotr and Ana
C3_Witness ==
  /\ which = "parseCreateSection" /\ returned
  /\ section.items = << Item(<< "A", "n", "a", ":" >>, -1, FALSE),
                        Item(<< "F", "i", "x", " ", "b", "u", "g", " ", "(", "P", "i",
                                "o", "t", "r", ")" >>, 0, TRUE),
                        Item(<< "F", "i", "x", " ", "b", "u", "g", "2" >>, 0, TRUE) >>
  /\ Len(tasks) = 2
  /\ tasks[1].assigneeName = << "P", "i", "o", "t", "r" >>
  /\ tasks[2].assigneeName = << "A", "n", "a" >>

\* the input of the running function as a list of flat items: list tells a
\* list item the loop does not skip, header an owner header
FlatItems ==
  IF which = "parseCreateSection"
  THEN [k \in 1..Len(section.items) |->
          LET item == section.items[k]
          IN  [list |-> item.isList /\ item.text # <<>>,
               level |-> item.indent,
               header |-> ~item.isList /\ isOwnerHeader(item.text),
               content |-> item.text]]
  ELSE [k \in 1..(Len(lines) - 1) |->
          LET line == lines[k + 1]
              bm == bulletRegex(line)
          IN  [list |-> bm.found,
               level |-> Level(bm.indent),
               header |-> /\ ~bm.found /\ textOwnerRegex(Trim(line))
                          /\ ~Includes(Trim(line), << "[" >>),
               content |-> Trim(bm.content)]]

\* the position in FlatItems of the item the next iteration takes
Position == IF which = "parseCreateSection" THEN idx ELSE idx - 1

\* a task is open when the item k is reached: a title before it, no owner
\* header since
TaskOpen(F, k) ==
  \E t \in 1..(k - 1) :
    F[t].list /\ F[t].level = 0 /\ \A h \in (t + 1)..(k - 1) : ~F[h].header

\* the item k is a list item the tree builder processes
Processed(F, k) == F[k].list /\ (F[k].level = 0 \/ TaskOpen(F, k))

\* the item k is at level 1 and the processed list item right before it, of the
\* same task, was at level 2 or deeper
ReturnsFromNested(F, k) ==
  /\ F[k].list /\ F[k].level = 1
  /\ \E p \in 1..(k - 1) :
       /\ Processed(F, p) /\ F[p].level >= 2
       /\ \A q \in (p + 1)..(k - 1) : ~Processed(F, q) /\ ~F[q].header

\* the loop takes one more item
TakesItem == idx >= 1 /\ idx' = idx + 1 /\ Position \in DOMAIN FlatItems

\* C4: in parseCreateSection and in parseCreateBlockText, a level-1 list item
\* whose preceding processed list item of the same task was at level 2 or
\* deeper appends exactly one empty string to the description of the task,
\* before its own content.
C4_OneBlankLineOnReturn ==
  [][(TakesItem /\ ReturnsFromNested(FlatItems, Position)) =>
       /\ currentTask # <<>> /\ currentTask' # <<>>
       /\ currentTask'[1].description
            = currentTask[1].description \o << <<>> >>
                \o (IF Len(currentTask'[1].checkboxes) > Len(currentTask[1].checkboxes)
                    THEN <<>> ELSE << FlatItems[Position].content >>)]_vars

\* the text fallback has taken a line indented by six spaces and then a line
\* indented by two: the description has one empty string between them
C4_Witness ==
  /\ which = "parseCreateBlockText"
  /\ idx = 5
  /\ lines[3] = << " ", " ", " ", " ", " ", " ", "-", " ", "d", "e", "s", "c" >>
  /\ lines[4] = << " ", " ", "-", " ", "d", "e", "s", "c" >>
  /\ currentTask # <<>>
  /\ currentTask[1].description = << << "-", " ", "d", "e", "s", "c" >>, <<>>, << "d", "e", "s", "c" >> >>

(***************************************************************************)
(* Claims about checkbox detection (SpecCheckbox)                           *)
(***************************************************************************)
StartsWith(s, t) == OccursAt(s, t, 1)

\* the content starts with one of '[ ]', '[]', '[x]', '[X]'
HasCheckboxPrefix(c) ==
  \/ StartsWith(c, << "[", " ", "]" >>) \/ StartsWith(c, << "[", "]" >>)
  \/ StartsWith(c, << "[", "x", "]" >>) \/ StartsWith(c, << "[", "X", "]" >>)

HasCheckedPrefix(c) ==
  StartsWith(c, << "[", "x", "]" >>) \/ StartsWith(c, << "[", "X", "]" >>)

\* C7: the content of a level-1 or level-2 list item is a checkbox exactly
\* when it starts with '[ ]', '[]', '[x]' or '[X]'; the checkbox is checked
\* exactly for x and X; any other content is appended to the description, as
\* it is at level 1 and behind '- ' at level 2.
C7_CheckboxExactlyForFourPrefixes ==
  (which = "parseCreateSection" /\ returned /\ Len(section.items) = 2 /\ Len(tasks) = 1) =>
    LET c == section.items[2].text
        n == section.items[2].indent
        t == tasks[1]
    IN  (n \in {1, 2} /\ c # <<>>) =>
          /\ Len(t.checkboxes) = (IF HasCheckboxPrefix(c) THEN 1 ELSE 0)
          /\ \A k \in 1..Len(t.checkboxes) : t.checkboxes[k].checked = HasCheckedPrefix(c)
          /\ t.description
               = (IF HasCheckboxPrefix(c) THEN <<>>
                  ELSE << (IF n = 1 THEN <<>> ELSE << "-", " " >>) \o c >>)

(***************************************************************************)
(* Claims about parseTaskMessage (SpecMessage)                              *)
(***************************************************************************)
\* the one task C5 expects of the scenario
ScenarioTask ==
  [title |-> << "T", "a", "s", "k", " ", "A" >>, assigneeName |-> << "B", "o", "b" >>,
   description |-> << << "d", "e", "s", "c", "1" >>, << "-", " ", "n", "e", "s", "t", "e", "d", "1" >>, <<>>, << "d", "e", "s", "c", "2" >> >>,
   checkboxes |-> <<>>, deckPath |-> << "A", "r", "t" >>]

HasCreateToken(t) ==
  /\ t # Null
  /\ \E i \in 1..Len(t) :
       i + 7 <= Len(t) /\ [k \in 1..8 |-> t[i + k - 1]] = sCreate

\* C6: for a text without the token '[Create]', missing and empty text
\* included, parseTaskMessage returns an empty task list and a null deckPath,
\* whatever blocks come with it.
C6_NoCreateNoTasks ==
  (called /\ ~HasCreateToken(eventText)) => parsed.tasks = <<>> /\ parsed.deckPath = Null

\* parseTaskMessage has been called on a text without '[Create]' ('[create]' in
\* lower case, then a bullet) together with blocks that hold a [Create] section
\* and a task, and has returned no task
C6_Witness ==
  /\ called
  /\ eventText = << "[", "c", "r", "e", "a", "t", "e", "]", " ", "[", "D", "e", "c",
                    "k", ":", " ", "A", "r", "t", "]", "\n", "-", " ", "T", "a", "s",
                    "k", " ", "B" >>
  /\ eventBlocks # <<>>
  /\ parseFromBlocks(eventBlocks).tasks # <<>>
  /\ parsed = NoResult

(***************************************************************************)
(* Claims about user resolution and about misses (SpecResolve, Spec)        *)
(***************************************************************************)
\* t occurs in s as a contiguous run
Contains(s, t) ==
  \E i \in 1..(Len(s) - Len(t) + 1) : SubSeq(s, i, i + Len(t) - 1) = t

\* the key the input of a call stands for under the alias map m
KeyOf(input, m) == normalize(AliasTarget(input, m))

\* the positions of the user entries whose name contains the key or is
\* contained in it
FuzzyHits(key) ==
  {i \in 1..Len(users) : Contains(users[i].key, key) \/ Contains(key, users[i].key)}

\* what the first related entry gives, null when there is none
FirstFuzzy(key) ==
  IF FuzzyHits(key) = {} THEN Null ELSE users[Min(FuzzyHits(key))].val

\* C11 as stated: whenever users has no exact entry for the normalized,
\* alias-substituted input, resolveUser returns the id of the first entry in
\* insertion order whose name contains the input or is contained in it, and
\* null when there is none.
C11_FuzzyFirstInOrder ==
  ( /\ observed.op = "resolveUser"
    /\ ~MapHas(users, KeyOf(observed.input, userMapping)) )
    => observed.result = FirstFuzzy(KeyOf(observed.input, userMapping))

\* C11 amended: the same for every non-empty input; the empty input resolves
\* to null before any lookup.
C11_FuzzyFirstInOrderNonEmpty ==
  /\ ( /\ observed.op = "resolveUser"
       /\ observed.input # <<>>
       /\ ~MapHas(users, KeyOf(observed.input, userMapping)) )
       => observed.result = FirstFuzzy(KeyOf(observed.input, userMapping))
  /\ (observed.op = "resolveUser" /\ observed.input = <<>>) => observed.result = Null

\* 'Tobiasz' has no entry of its own and has resolved to the user
\* 'tobiasz nowak', the second entry of the cache
C11_Witness ==
  /\ observed.op = "resolveUser"
  /\ observed.input = sTobiasz
  /\ userMapping = <<>>
  /\ ~MapHas(users, normalize(sTobiasz))
  /\ users[2].key = normalize(sTobiaszNowak)
  /\ observed.result = users[2].val

\* the call names the entry it answers with: for a space the entry under its
\* key, for a user that entry or a related one
NamesResult ==
  \/ /\ observed.op = "resolveSpace"
     /\ MapGet(spaces, KeyOf(observed.input, spaceMapping)) = observed.result
  \/ /\ observed.op = "resolveUser"
     /\ \/ MapGet(users, KeyOf(observed.input, userMapping)) = observed.result
        \/ FirstFuzzy(KeyOf(observed.input, userMapping)) = observed.result
  \/ observed.op = "resolveDeck"

\* C12 as stated: a call that answers with an id answers with the id of an
\* entry its input names, and a non-empty input that is blank after
\* normalization resolves to null.
C12_MissIsNull ==
  /\ (observed.op # "none" /\ observed.result # Null) => NamesResult
  /\ ( /\ observed.op # "none"
       /\ observed.input # <<>>
       /\ normalize(observed.input) = <<>> )
       => observed.result = Null

\* C13 as stated: a resolve call made while initialized is false does not
\* answer null, the answer an initialized cache gives for an unknown name.
C13_UninitializedIsDistinct ==
  [][ (~initialized /\ observed' # observed) => observed'.result # Null ]_vars

(***************************************************************************)
(* Claims about the card body and the section split (SpecCalls), and about  *)
(* the bodies and titles of parsed tasks (SpecSection, SpecMessage)         *)
(***************************************************************************)
\* C14 as stated: no other task record, differing in title, description lines
\* or checkboxes, gives the body the built record gave.
C14_BodyDeterminesTask ==
  observed.op = "buildCardContent" =>
    \A t \in CardTasks : t # observed.input => buildCardContent(t) # observed.result

\* each line preceded by a newline
RECURSIVE OnNewLines(_)
OnNewLines(ls) ==
  IF ls = <<>> THEN <<>> ELSE << "\n" >> \o Head(ls) \o OnNewLines(Tail(ls))

\* the line of a checkbox
CheckboxLine(cb) ==
  (IF cb.checked THEN << "-", " ", "[", "x", "]", " " >> ELSE << "-", " ", "[", " ", "]", " " >>) \o cb.text

\* the lines below the title: a blank line and the description lines when
\* there are any, a blank line and the checkbox lines when there are any
LinesBelowTitle(task) ==
  (IF task.description # <<>> THEN << <<>> >> \o task.description ELSE <<>>)
    \o (IF task.checkboxes # <<>>
        THEN << <<>> >> \o [i \in 1..Len(task.checkboxes) |-> CheckboxLine(task.checkboxes[i])]
        ELSE <<>>)

\* C15: the body is the title, then, when the description is non-empty, one
\* blank line and the description lines, then, when there are checkboxes, one
\* blank line and one line '- [x] text' or '- [ ] text' per checkbox, in order.
C15_BodyLayout ==
  observed.op = "buildCardContent" =>
    observed.result = observed.input.title \o OnNewLines(LinesBelowTitle(observed.input))

\* a task with one description line, a checked and an unchecked checkbox
C15_Witness ==
  /\ observed.op = "buildCardContent"
  /\ observed.input = [title |-> << "T" >>, description |-> << << "a" >> >>,
                       checkboxes |-> << [text |-> << "a" >>, checked |-> TRUE],
                                         [text |-> <<>>, checked |-> FALSE] >>]
  /\ observed.result = << "T", "\n", "\n", "a", "\n", "\n", "-", " ", "[", "x", "]", " ", "a", "\n", "-", " ", "[", " ", "]", " " >>

\* C16 as stated: the body built for a task the parser returned neither
\* starts nor ends with a newline.
C16_NoNewlineAtTheEnds ==
  (observed.op = "buildCardContent" /\ observed.result # <<>>) =>
    /\ Head(observed.result) # "\n"
    /\ observed.result[Len(observed.result)] # "\n"

\* C17 as stated: every task parseTaskMessage returned has a title that is
\* non-empty after trimming.
C17_TitlesNonEmpty ==
  called => \A i \in 1..Len(parsed.tasks) : Trim(parsed.tasks[i].title) # <<>>

\* the positions of the items that hold the [Create] token
Markers(items) == {i \in 1..Len(items) : Contains(items[i].text, sCreate)}

\* the position of the marker after the k-th, or past the end of the items
NextMarker(items, k) ==
  IF k < Cardinality(Markers(items)) THEN Nth(Markers(items), k + 1) ELSE Len(items) + 1

\* C18: splitByCreate gives one section per item that holds '[Create]', in
\* order; the items of a section are those between its marker and the next
\* marker; items before the first marker are in no section.
C18_OneSectionPerMarker ==
  observed.op = "splitByCreate" =>
    /\ Len(observed.result) = Cardinality(Markers(observed.input))
    /\ \A k \in 1..Len(observed.result) :
         /\ observed.result[k].createLine = observed.input[Nth(Markers(observed.input), k)].text
         /\ observed.result[k].items =
              SubSeq(observed.input, Nth(Markers(observed.input), k) + 1,
                     NextMarker(observed.input, k) - 1)

\* an item before the marker and one after it: one section, which holds the
\* item after the marker
C18_Witness ==
  /\ observed.op = "splitByCreate"
  /\ Len(observed.input) = 3
  /\ Markers(observed.input) = {2}
  /\ Len(observed.result) = 1
  /\ observed.result[1].items = << observed.input[3] >>

(***************************************************************************)
(* Claims about items without a task (SpecSection) and about the deck path  *)
(* of the tasks of a message (SpecMessage)                                  *)
(***************************************************************************)
\* C19: in parseCreateSection and in parseCreateBlockText, a list item at
\* level 1 or deeper taken while no task is open (no title yet, or an owner
\* header since the last title) leaves the task list and the open task as
\* they are: nothing is added, no task is created.
C19_OrphanItemsDiscarded ==
  [][( /\ TakesItem
       /\ FlatItems[Position].list /\ FlatItems[Position].level >= 1
       /\ ~TaskOpen(FlatItems, Position) )
       => currentTask = <<>> /\ currentTask' = <<>> /\ tasks' = tasks]_vars

\* a title, an owner header and then a level-1 item with content: the item
\* was taken, the task of the title is the only one and has no description
C19_Witness ==
  /\ which = "parseCreateSection"
  /\ idx = 4
  /\ section.items[1].indent = 0 /\ section.items[1].isList
  /\ ~section.items[2].isList /\ isOwnerHeader(section.items[2].text)
  /\ section.items[3] = Item(<< "d", "e", "s", "c" >>, 1, TRUE)
  /\ currentTask = <<>>
  /\ Len(tasks) = 1 /\ tasks[1].description = <<>>

\* the sections of the message, each with the tasks parsed from it and the
\* deck tag of its marker: of the [Create] item for blocks, of the [Create]
\* line for text
SectionsOfMessage ==
  IF eventBlocks # <<>>
  THEN [k \in 1..Len(BlockSections(eventBlocks)) |->
          [tasks |-> parseCreateSection(BlockSections(eventBlocks)[k]).tasks,
           deckPath |-> DeckTag(BlockSections(eventBlocks)[k].createLine)]]
  ELSE [k \in 1..Len(splitIntoCreateBlocks(eventText)) |->
          [tasks |-> parseCreateBlockText(splitIntoCreateBlocks(eventText)[k]).tasks,
           deckPath |-> DeckTag(Split(splitIntoCreateBlocks(eventText)[k], "\n")[1])]]

\* the tasks of the sections in order, each with the deck path of its section
RECURSIVE TasksWithMarkerTag(_)
TasksWithMarkerTag(secs) ==
  IF secs = <<>> THEN <<>>
  ELSE WithDeckPath(Head(secs).tasks, Head(secs).deckPath) \o TasksWithMarkerTag(Tail(secs))

\* the deck path of the first section that has one
FirstMarkerTag(secs) ==
  IF \A k \in 1..Len(secs) : secs[k].deckPath = Null THEN Null
  ELSE secs[Min({k \in 1..Len(secs) : secs[k].deckPath # Null})].deckPath

\* C20 as stated: every task of the result carries the deck tag of the marker
\* of its own section, null when the marker has none, and the deckPath of the
\* result is that of the first section that has one.
C20_TasksCarrySectionDeck ==
  (called /\ HasCreateToken(eventText)) =>
    /\ parsed.tasks = TasksWithMarkerTag(SectionsOfMessage)
    /\ parsed.deckPath = FirstMarkerTag(SectionsOfMessage)

(***************************************************************************)
(* Claims about the indent thresholds and the text extractor (SpecCalls)    *)
(***************************************************************************)
\* the number of white space characters a line begins with
LeadingSpace(line) == Len(line) - Len(TrimStart(line))

\* the level the thresholds give
ThresholdLevel(n) == CASE n <= 1 -> 0 [] n >= 2 /\ n <= 4 -> 1 [] OTHER -> 2

\* C21 as stated, for the bullet lines of a rich_text_section: each line with
\* n leading white space characters becomes a list item at level 0 when
\* n <= 1, level 1 when 2 <= n <= 4 and level 2 when n >= 5.
C21_LevelFromLeadingSpace ==
  observed.op = "flattenRichTextBlock" =>
    LET ls == Split(observed.input.elements[1].elements[1].text, "\n")
    IN  /\ Len(observed.result) = Len(ls)
        /\ \A k \in 1..Len(ls) :
             /\ observed.result[k].isList
             /\ observed.result[k].indent = ThresholdLevel(LeadingSpace(ls[k]))

\* the node lacks the field its kind reads
Malformed(el) ==
  CASE el.type = "text"    -> el.text = <<>>
    [] el.type = "link"    -> el.text = <<>> /\ el.url = <<>>
    [] el.type = "emoji"   -> el.unicode = <<>> /\ el.name = Null
    [] el.type = "user"    -> el.id = Null
    [] el.type = "channel" -> el.id = Null
    [] OTHER               -> el.text = <<>>

\* the text of the nodes, a malformed node counting as the empty string
RECURSIVE TextOfNodes(_)
TextOfNodes(elements) ==
  IF elements = <<>> THEN <<>>
  ELSE (IF Malformed(Head(elements)) THEN <<>> ELSE ElementText(Head(elements)))
         \o TextOfNodes(Tail(elements))

\* C22 as stated: extractText returns the concatenation of the texts of its
\* nodes, where a malformed node contributes the empty string.
C22_MalformedNodesGiveNothing ==
  observed.op = "extractText" => observed.result = TextOfNodes(observed.input)

\* C23: every refresh/initialize call eventually completes (it returns or
\* it throws to its caller), even when the registry never answers one of
\* the three requests
C23_EveryCallCompletes ==
  \A p \in Callers : (pc[p] # "idle") ~> (pc[p] = "idle")

\* C24: in the v4.1 parser a bullet that is no checkbox, indented by three
\* spaces below a top-level description bullet, is stored in the description
\* as an indented bullet: '[Create] Task', 'bullet Normalny opis',
\* '   bullet Wciety opis' gives two description lines and the second one
\* holds the bullet marker
C24_IndentedBulletKept ==
  (/\ observed.op = "parseTaskMessage41"
   /\ observed.input = Join(<< << "[", "C", "r", "e", "a", "t", "e", "]", " ", "T", "a", "s", "k" >>, sNormalnyOpis, << " ", " ", " " >> \o sWcietyOpis >>,
                            << "\n" >>))
    => /\ Len(observed.result.tasks) = 1
       /\ Len(observed.result.tasks[1].description) = 2
       /\ Includes(observed.result.tasks[1].description[2], << "bullet" >>)

\* the list item the claim derives from a line of text: a bullet line is a
\* list item at its threshold level, any other line a non-list item
DerivedItem(line) ==
  LET bm == bulletRegex(line)
  IN  IF bm.found THEN Item(Trim(bm.content), Level(bm.indent), TRUE)
      ELSE Item(Trim(line), -1, FALSE)

\* the section derived from a block of text: the first line is the marker
\* line, the blank lines give no item
DerivedSection(text) ==
  LET ls == Split(text, "\n")
      body == SelectSeq(Tail(ls), LAMBDA l : Trim(l) # <<>>)
  IN  [createLine |-> Head(ls),
       items |-> [k \in 1..Len(body) |-> DerivedItem(body[k])]]

\* C25: for every [Create] block of plain text parseCreateBlockText returns
\* the tasks and the deckPath that parseCreateSection returns on the flat
\* item list derived from the same lines
C25_TextParserAsSectionParser ==
  (which = "parseCreateBlockText" /\ returned)
    => [tasks |-> tasks, deckPath |-> deckPath]
         = parseCreateSection(DerivedSection(blockText))

\* C26: at most one refresh/initialize is in progress at any time: no call
\* starts while an earlier one still awaits the registry
C26_OneRefreshAtATime ==
  Cardinality({p \in Callers : pc[p] # "idle"}) <= 1

\* the owner in force at the line k: the nearest owner header before it with
\* no [Create] line in between
OwnerInForce(L, k) ==
  LET H == {h \in 1..(k - 1) :
              L[h] \in {sBobHeader, sEveHeader} /\ \A j \in (h + 1)..(k - 1) : L[j] # sCreate}
  IN  IF H = {} THEN Null
      ELSE IF L[Max(H)] = sBobHeader THEN << "B", "o", "b" >> ELSE << "E", "v", "e" >>

\* the task of the title line k: its body lines are the ones right below it
TaskOfTitle(L, k) ==
  LET end == Min({j \in (k + 1)..Len(L) : L[j] # sBodyD} \cup {Len(L) + 1})
  IN  [title |-> IF L[k] = sTitleB THEN << "B" >> ELSE << "T" >>,
       assigneeName |-> IF L[k] = sTitleTAna THEN << "A", "n", "a" >>
                        ELSE OwnerInForce(L, k),
       description |-> [j \in 1..(end - k - 1) |-> << "d" >>],
       checkboxes |-> <<>>,
       deckPath |-> Null]

\* C27: an owner header closes the open task and is the default assignee of
\* every later level-0 task of the same section until the next owner header
\* replaces it; it does not carry over into the next [Create] section, whose
\* tasks start with no default owner
C27_OwnerHeaderScope ==
  observed.op = "parseTaskMessage" =>
    LET L == Split(observed.input.text, "\n")
        T == {k \in 1..Len(L) : L[k] \in {sTitleB, sTitleTAna}}
    IN  observed.result.tasks
          = [n \in 1..Cardinality(T) |-> TaskOfTitle(L, Nth(T, n))]

\* the message '[Create]', 'Bob:', '- B', '[Create]', '- B' has been parsed
\* from its blocks: the first task is Bob's, the second has no assignee
C27_Witness ==
  /\ observed.op = "parseTaskMessage"
  /\ observed.input.text = Join(<< sCreate, sBobHeader, sTitleB, sCreate, sTitleB >>, << "\n" >>)
  /\ observed.input.blocks # <<>>
  /\ Len(observed.result.tasks) = 2
  /\ observed.result.tasks[1].assigneeName = << "B", "o", "b" >>
  /\ observed.result.tasks[2].assigneeName = Null

\* the item the loop takes is outside the lists (in the text fallback: a
\* line without a bullet) and is no owner header: no short line of name
\* characters with an optional colon
PlainText ==
  IF which = "parseCreateSection"
  THEN ~section.items[idx].isList /\ ~isOwnerHeader(section.items[idx].text)
  ELSE ~bulletRegex(lines[idx]).found /\ ~isOwnerHeader(lines[idx])

\* C28: a non-list item that is not an owner header leaves the builder state
\* unchanged: the open task with its description and checkboxes, the current
\* owner, the last indent level and the finished tasks
C28_PlainTextLeavesState ==
  [][(TakesItem /\ PlainText)
       => UNCHANGED << tasks, currentTask, currentOwner, lastIndent >>]_vars

\* what the claim has parseTaskMessage return: the result of the text
\* fallback when there are no blocks, else what the blocks alone give
BlocksElseText ==
  IF eventBlocks = <<>>
  THEN parseFromText(IF HasCreateToken(eventText) THEN eventText ELSE <<>>)
  ELSE parseFromBlocks(eventBlocks)

\* C29 as stated: the text fallback is used exactly when blocks is missing or
\* empty, and with a non-empty blocks array the result comes only from its
\* rich_text blocks, whatever the text
C29_BlocksElseText == called => parsed = BlocksElseText

\* C29 for a text that holds '[Create]': the text fallback is used exactly
\* when blocks is missing or empty; with a non-empty blocks array the result
\* comes only from its rich_text blocks, and the text is not parsed even when
\* those blocks give no task
C29_BlocksElseTextUnderMarker ==
  (called /\ HasCreateToken(eventText)) => parsed = BlocksElseText

\* the text '[Create]', '- Task B' came with one block that is no rich text:
\* the text fallback would give a task, the result has none
C29_Witness ==
  /\ called
  /\ eventText = Join(<< sCreate, << "-", " ", "T", "a", "s", "k", " ", "B" >> >>, << "\n" >>)
  /\ parseFromText(eventText).tasks # <<>>
  /\ eventBlocks # <<>>
  /\ parseFromBlocks(eventBlocks).tasks = <<>>
  /\ parsed.tasks = <<>>

\* the list items with text between the title k and the next level-0 list
\* item or owner header
BodyItems(items, k) ==
  LET Closers == {j \in (k + 1)..Len(items) :
                    \/ items[j].isList /\ items[j].indent = 0
                    \/ ~items[j].isList /\ isOwnerHeader(items[j].text)}
      end == Min(Closers \cup {Len(items) + 1})
  IN  {j \in (k + 1)..(end - 1) : items[j].isList /\ items[j].text # <<>>}

\* the items of the set S in source order
InOrder(items, S) == [n \in 1..Cardinality(S) |-> items[Nth(S, n)]]

\* the description line of a body item: a level-2 item behind a dash
LineOf(item) == (IF item.indent >= 2 THEN << "-", " " >> ELSE <<>>) \o item.text

\* C30: parseCreateSection returns exactly one task per level-0 list item
\* with non-empty text, in the order of those items, and the description
\* lines and checkboxes of a task come only from the list items between its
\* title item and the next level-0 item or owner header, in source order
C30_TasksFromTheirOwnItems ==
  (which = "parseCreateSection" /\ returned) =>
    LET items == section.items
        T == TitleItems(items)
    IN  /\ Len(tasks) = Cardinality(T)
        /\ \A n \in 1..Len(tasks) :
             LET k == Nth(T, n)
                 B == BodyItems(items, k)
                 Boxes == {j \in B : checkboxRegex(items[j].text).found}
             IN  /\ tasks[n].title = TaskFromTitle(items[k].text, Null).title
                 /\ SelectSeq(tasks[n].description, LAMBDA l : l # <<>>)
                      = [i \in 1..Cardinality(B \ Boxes) |->
                           LineOf(InOrder(items, B \ Boxes)[i])]
                 /\ [i \in 1..Len(tasks[n].checkboxes) |-> tasks[n].checkboxes[i].text]
                      = [i \in 1..Cardinality(Boxes) |->
                           Trim(checkboxRegex(InOrder(items, Boxes)[i].text).text)]

\* every empty line of the description has a non-empty line right before it
\* and right after it
BlankLinesInside(description) ==
  \A i \in 1..Len(description) :
    description[i] = <<>> =>
      /\ i > 1 /\ description[i - 1] # <<>>
      /\ i < Len(description) /\ description[i + 1] # <<>>

\* C31: every empty string in the description of a task stands strictly
\* between two non-empty description lines: no description starts or ends
\* with an empty line or holds two empty lines in a row
C31_BlankLinesInside ==
  (which = "parseCreateSection" /\ returned) =>
    \A n \in 1..Len(tasks) : BlankLinesInside(tasks[n].description)

\* the id stored under the exact key of the input of the call, when the
\* user map has that key
ExactEntryGiven ==
  \A i \in 1..Len(users) :
    users[i].key = KeyOf(observed.input, userMapping) => observed.result = users[i].val

\* C32 as stated: resolveUser returns the id stored under the exact
\* normalized name whenever such an entry exists, even if an entry inserted
\* earlier would match by substring
C32_ExactBeforeFuzzy == observed.op = "resolveUser" => ExactEntryGiven

\* C32 amended: the same for every non-empty input; the empty input resolves
\* to null even when a user is stored under the empty key
C32_ExactBeforeFuzzyNonEmpty ==
  /\ (observed.op = "resolveUser" /\ observed.input # <<>>) => ExactEntryGiven
  /\ (observed.op = "resolveUser" /\ observed.input = <<>>) => observed.result = Null

\* 'Tobiasz' has resolved to the user stored under 'tobiasz', the third
\* entry, although the first entry 'tobiasz nowak' contains it
C32_Witness ==
  /\ observed.op = "resolveUser"
  /\ observed.input = sTobiasz
  /\ userMapping = <<>>
  /\ users[1].key = normalize(sTobiaszNowak)
  /\ users[3].key = normalize(sTobiasz)
  /\ observed.result = users[3].val
  /\ observed.result # users[1].val

\* the decks the registry answers listDecksWithSpaces with
Fetched == Snapshots[registry].decks

\* the compound key of the fetched deck k, from the space name loadDecks
\* finds for it
PathKey(k) ==
  normalize(DeckSpaceName(Fetched[k], spaceNames) \o << "/" >> \o Fetched[k].name)

HasSpaceName(k) == Truthy(DeckSpaceName(Fetched[k], spaceNames))

\* the plain map holds, for each normalized name, the first fetched deck of
\* that name
FirstOfNameKept(decksAfter) ==
  \A k \in 1..Len(Fetched) :
    (\A j \in 1..(k - 1) : normalize(Fetched[j].name) # normalize(Fetched[k].name))
      => MapGet(decksAfter, normalize(Fetched[k].name)).id = Fetched[k].id

\* the fetched deck k is the last with its compound key
LastOfPath(k) ==
  \A j \in (k + 1)..Len(Fetched) : HasSpaceName(j) => PathKey(j) # PathKey(k)

\* a caller takes the step loadDecks
LoadsDecks == \E p \in Callers : pc[p] = "listDecksWithSpaces" /\ pc'[p] = "listUsers"

\* C33 as stated: after loadDecks the plain decks map holds the first deck of
\* each normalized name in fetch order, and every fetched deck with a known
\* space name is reachable through its own compound key in deckPaths
C33_FirstNameEveryPath ==
  [][LoadsDecks =>
       /\ FirstOfNameKept(decks')
       /\ \A k \in 1..Len(Fetched) :
            HasSpaceName(k) => MapGet(deckPaths', PathKey(k)) = Fetched[k].id]_vars

\* C33 amended: the same, where a compound key that several fetched decks
\* share holds the last of them
C33_FirstNameLastPath ==
  [][LoadsDecks =>
       /\ FirstOfNameKept(decks')
       /\ \A k \in 1..Len(Fetched) :
            (HasSpaceName(k) /\ LastOfPath(k))
              => MapGet(deckPaths', PathKey(k)) = Fetched[k].id]_vars

\* loadDecks has run on two decks named Backlog of two spaces: the plain map
\* holds the first, and each compound key leads to its own deck
C33_Witness ==
  /\ \E p \in Callers : pc[p] = "listUsers"
  /\ MapGet(decks, normalize(sBacklog)).id = Id("d1")
  /\ MapGet(deckPaths, normalize(sMATXA \o << "/" >> \o sBacklog)) = Id("d1")
  /\ MapGet(deckPaths, normalize(sArt \o << "/" >> \o sBacklog)) = Id("d2")

\* the decks of the registry the cache is loaded from
LoadedDecks ==
  ResolveSnapshots[CHOOSE i \in 1..Len(ResolveSnapshots) :
                     CacheLoadedFrom(ResolveSnapshots[i])].decks

\* 'spaceName/deckName' of a fetched deck
PathOf(deck) == DeckSpaceName(deck, spaceNames) \o << "/" >> \o deck.name

\* C34: after a successful refresh and with empty alias maps, resolveDeck on
\* the name of a fetched deck that is the first with its normalized name
\* returns that deck, and resolveDeck on 'spaceName/deckName' of a fetched deck
\* with a known space name returns that deck unless another deck has the same
\* normalized compound key.
C34_FetchedDecksAreFound ==
  (observed.op = "resolveDeck" /\ deckMapping = <<>> /\ spaceMapping = <<>>) =>
    \A k \in 1..Len(LoadedDecks) :
      LET deck == LoadedDecks[k]
      IN  /\ ( /\ Truthy(deck.name) /\ Truthy(deck.id)
               /\ \A j \in 1..(k - 1) :
                    normalize(LoadedDecks[j].name) # normalize(deck.name)
               /\ observed.input = deck.name )
               => observed.result = deck.id
          /\ ( /\ Truthy(DeckSpaceName(deck, spaceNames))
               /\ \A j \in 1..Len(LoadedDecks) :
                    j # k => normalize(PathOf(LoadedDecks[j])) # normalize(PathOf(deck))
               /\ observed.input = PathOf(deck) )
               => observed.result = deck.id

\* a caller whose loadSpaces and loadDecks have ended takes the last step of
\* initialize: listUsers has answered and loadUsers fills the users map
CompletesAllLoads ==
  /\ \E p \in Callers : pc[p] = "listUsers" /\ pc'[p] = "idle"
  /\ users' = FillUsers(Snapshots[registry].users, EmptyMap)
  /\ initialized'

\* C35: initialized is false until an initialize call completes its three
\* loads, is true from then on (a later failed refresh does not reset it), and
\* lastRefresh changes only in the step that completes a refresh.
C35_InitializedOnceLoaded ==
  [][ /\ (~initialized /\ initialized') => CompletesAllLoads
      /\ initialized => initialized'
      /\ lastRefresh' # lastRefresh => CompletesAllLoads ]_vars

\* after one complete initialize on the first registry a refresh on the second
\* registry has filled the spaces and has ended without reaching loadUsers
C35_Witness ==
  /\ initialized /\ lastRefresh = 1
  /\ \A p \in Callers : pc[p] = "idle"
  /\ spaces = FillSpaces(Snapshots[2].projects, EmptyMap, EmptyMap).spaces
  /\ users = FillUsers(Snapshots[1].users, EmptyMap)

KeysOf(m) == {m[i].key : i \in 1..Len(m)}

\* the keys a load stores for the rows of one answer of the registry
NamesOf(rows) ==
  {normalize(rows[i].name) :
     i \in {k \in 1..Len(rows) : Truthy(rows[k].name) /\ Truthy(rows[k].id)}}

\* the compound keys loadDecks stores for the decks of the registry i when
\* the space names are those of the registry j
PathsOf(i, j) ==
  LET names == FillSpaces(Snapshots[j].projects, EmptyMap, EmptyMap).spaceNames
      rows == Snapshots[i].decks
  IN  {normalize(DeckSpaceName(rows[k], names) \o << "/" >> \o rows[k].name) :
         k \in {n \in 1..Len(rows) : Truthy(DeckSpaceName(rows[n], names))}}

\* each lookup map is as the constructor left it or holds the keys of one
\* whole answer of the registry
MapsWhole ==
  /\ spaces = EmptyMap
       \/ \E i \in 1..Len(Snapshots) : KeysOf(spaces) = NamesOf(Snapshots[i].projects)
  /\ decks = EmptyMap
       \/ \E i \in 1..Len(Snapshots) : KeysOf(decks) = NamesOf(Snapshots[i].decks)
  /\ deckPaths = EmptyMap
       \/ \E i, j \in 1..Len(Snapshots) : KeysOf(deckPaths) = PathsOf(i, j)
  /\ users = EmptyMap
       \/ \E i \in 1..Len(Snapshots) : KeysOf(users) = NamesOf(Snapshots[i].users)

\* a handler resolves a name: no refresh moves and the registry stays
Resolves == pc' = pc /\ registry' = registry /\ observed'.op # "none"

\* C36: a resolve call never sees a lookup map half-built: whenever a name is
\* resolved, also between the loads of a running refresh, each map holds
\* nothing or the keys of one whole answer of the registry.
C36_NoHalfBuiltMap == [][Resolves => MapsWhole]_vars

\* a user is resolved while a refresh on the second registry has loaded its
\* spaces and the decks and users are those of the first registry
C36_Witness ==
  /\ observed.op = "resolveUser"
  /\ \E p \in Callers : pc[p] = "listDecksWithSpaces"
  /\ KeysOf(spaces) = NamesOf(Snapshots[2].projects)
  /\ KeysOf(decks) = NamesOf(Snapshots[1].decks)
  /\ KeysOf(users) = NamesOf(Snapshots[1].users)

(***************************************************************************)
(* Claims about the event handler (SpecEvent)                               *)
(***************************************************************************)
\* the handler h takes up an event: handleEvent goes past its early returns
\* to an await
TakesUp(h) == hpc[h] = "idle" /\ hpc'[h] # "idle"

\* C37: handleEvent handles an event key at most once until the key expires
\* ten minutes after it was first seen: a handler takes up an event only when
\* its key is not in processedEvents, and the key is in it from then on; a
\* delivery the test drops changes nothing (no command, no parsing, no card);
\* a key leaves processedEvents only through a timer set ten minutes before.
C37_OncePerKeyUntilExpiry ==
  [][ /\ \A h \in Handlers :
           TakesUp(h) => /\ eventKey(Events[hevent'[h]]) \notin processedEvents
                         /\ eventKey(Events[hevent'[h]]) \in processedEvents'
      /\ duplicates' # duplicates
           => UNCHANGED << handlerVars, cacheVars, processedEvents, timers >>
      /\ \A key \in processedEvents :
           key \notin processedEvents'
             => \E t \in timers : t.key = key /\ t.age >= ExpiryMinutes ]_vars

\* the first event was delivered twice within five minutes, the second time
\* while the handler of the first delivery awaits createCard: the second
\* delivery was dropped
C37_Witness ==
  /\ delivered = 2 /\ duplicates = 1
  /\ hpc[1] = "createCard" /\ hevent[1] = 1
  /\ hpc[2] = "idle"
  /\ timers = {[key |-> Id("c1"), age |-> TickMinutes]}

\* config.defaultDeckId || resolveDefaultDeck()
ConfiguredDefault ==
  IF Truthy(defaultDeckId) THEN defaultDeckId
  ELSE IF Truthy(defaultDeckName)
  THEN resolveDeck(defaultDeckName, deckMapping, spaceMapping)
  ELSE Null

WithDeck(h) == {n \in 1..Len(tasksWithUuids[h]) : Truthy(tasksWithUuids[h][n].deckId)}

\* C38: createCard is never called for a task without a deck id: a task
\* whose deck path does not resolve has the configured default deck, the
\* pending createCard is for a task with a deck id, every card created is of
\* a task with a deck id, and when no task has one no createCard is pending
\* and none has answered or thrown.
C38_NoCardWithoutDeck ==
  \A h \in Handlers :
    /\ \A n \in 1..Len(tasksWithUuids[h]) :
         LET t == tasksWithUuids[h][n]
         IN  (Truthy(t.task.deckPath) /\ ~Truthy(resolveDeckId(t.task.deckPath)))
               => t.deckId = ConfiguredDefault
    /\ hpc[h] = "createCard"
         => /\ Truthy(cardData[h].deckId)
            /\ \E n \in WithDeck(h) : cardData[h] = CardDataOf(tasksWithUuids[h][n])
    /\ \A n \in 1..Len(cardResults[h].success) :
         \E m \in WithDeck(h) :
           cardResults[h].success[n] = tasksWithUuids[h][m].task.title
    /\ WithDeck(h) = {}
         => /\ hpc[h] # "createCard"
            /\ cardResults[h].success = <<>>
            /\ cardResults[h].failed \in {<<>>, << sNoDeck >>, << sCacheError >>}

\* the message with a section for Todo and a section for the unknown deck Zed
\* under a deployment without default deck: the second task has no deck id,
\* and createCard is pending for the first
C38_Witness ==
  \E h \in Handlers :
    /\ hpc[h] = "createCard" /\ hevent[h] = 2
    /\ Len(tasksWithUuids[h]) = 2
    /\ ~Truthy(tasksWithUuids[h][2].deckId)
    /\ cardData[h].deckId = Id("d3")
    /\ defaultDeckId = Null /\ defaultDeckName = Null

\* C39: when handleEvent adds the confirmation reaction, a card was created
\* for every task parsed from the message; a task left out for lack of a deck
\* or whose creation failed leads to the warning reaction.
C39_ConfirmationMeansAllCreated ==
  \A h \in Handlers :
    hpc[h] = "addReaction" =>
      /\ reaction[h] = "white_check_mark"
           => Len(cardResults[h].success) = Len(tasksWithUuids[h])
      /\ ( \/ \E n \in 1..Len(tasksWithUuids[h]) : ~Truthy(tasksWithUuids[h][n].deckId)
           \/ Len(cardResults[h].failed) > 0 )
           => reaction[h] = "warning"
====
